---- MODULE Spec2Model ----
(***************************************************************************)
(* The dispatch core of the API gateway: route resolution                  *)
(* (app/router.py), the authentication gate (middleware.py, app/auth.py)   *)
(* and the forwarding pipeline (app/proxy.py), over the shipped            *)
(* configuration (config.py).                                              *)
(*                                                                         *)
(* Paths, header values and tokens are strings, handled character by       *)
(* character as the Python str methods handle them.  A Python Optional is  *)
(* a sequence of length 0 (None) or 1 (the value).                         *)
(***************************************************************************)
EXTENDS Integers, Sequences, FiniteSets, TLC

----------------------------------------------------------------------------
(* Python str and dict primitives used by the code.                        *)

None == <<>>

Some(v) == <<v>>

\* s[i] for a 1-based index i
CharAt(s, i) == SubSeq(s, i, i)

\* str.startswith(prefix)
StartsWith(s, prefix) ==
  /\ Len(prefix) <= Len(s)
  /\ SubSeq(s, 1, Len(prefix)) = prefix

\* str.rstrip('/'): every trailing '/' is removed
RECURSIVE RStripSlash(_)
RStripSlash(s) ==
  IF Len(s) > 0 /\ CharAt(s, Len(s)) = "/"
    THEN RStripSlash(SubSeq(s, 1, Len(s) - 1))
    ELSE s

\* str.find(old): the least 1-based index at which old occurs in s, 0 if none
Find(s, old) ==
  LET hits == {i \in 1..(Len(s) - Len(old) + 1) :
                 SubSeq(s, i, i + Len(old) - 1) = old}
  IN  IF hits = {} THEN 0
      ELSE CHOOSE i \in hits : \A j \in hits : i <= j

\* str.replace(old, new, 1): the leftmost occurrence of old, if any, is replaced
ReplaceOnce(s, old, new) ==
  LET i == Find(s, old)
  IN  IF i = 0 THEN s
      ELSE SubSeq(s, 1, i - 1) \o new \o SubSeq(s, i + Len(old), Len(s))

\* str.replace(old, new): every occurrence of old, from the left and without
\* overlap, is replaced (old is not empty)
RECURSIVE ReplaceAll(_, _, _)
ReplaceAll(s, old, new) ==
  LET i == Find(s, old)
  IN  IF i = 0 \/ old = "" THEN s
      ELSE SubSeq(s, 1, i - 1) \o new
           \o ReplaceAll(SubSeq(s, i + Len(old), Len(s)), old, new)

\* the characters str.split() splits on, among those a header value can hold
Whitespace == {" ", "\t"}

\* str.split(): the maximal runs of non-whitespace characters, in order
RECURSIVE SplitFrom(_, _, _, _)
SplitFrom(s, i, cur, acc) ==
  IF i > Len(s)
    THEN IF cur = "" THEN acc ELSE Append(acc, cur)
    ELSE IF CharAt(s, i) \in Whitespace
      THEN SplitFrom(s, i + 1, "", IF cur = "" THEN acc ELSE Append(acc, cur))
      ELSE SplitFrom(s, i + 1, cur \o CharAt(s, i), acc)

Split(s) == SplitFrom(s, 1, "", <<>>)

UpperCase == "ABCDEFGHIJKLMNOPQRSTUVWXYZ"

LowerCase == "abcdefghijklmnopqrstuvwxyz"

LowerChar(c) ==
  IF \E i \in 1..Len(UpperCase) : CharAt(UpperCase, i) = c
    THEN CharAt(LowerCase, CHOOSE i \in 1..Len(UpperCase) : CharAt(UpperCase, i) = c)
    ELSE c

\* the characters of s from place i on, each in lower case
RECURSIVE LowerFrom(_, _)
LowerFrom(s, i) ==
  IF i > Len(s) THEN ""
  ELSE LowerChar(CharAt(s, i)) \o LowerFrom(s, i + 1)

\* str.lower()
Lower(s) == LowerFrom(s, 1)

\* The keys of a sequence of <<key, value>> assignments, each once, in the
\* order of its first assignment (the iteration order of a Python dict).
KeysInOrder(items) ==
  LET first == {i \in 1..Len(items) :
                  \A j \in 1..(i - 1) : items[j][1] # items[i][1]}
      nth(n) == CHOOSE i \in first : Cardinality({j \in first : j <= i}) = n
  IN  [n \in 1..Cardinality(first) |-> items[nth(n)][1]]

\* The value a dict holds for key k after the assignments: the last one wins.
LastValue(items, k) ==
  items[CHOOSE i \in 1..Len(items) :
          /\ items[i][1] = k
          /\ \A j \in (i + 1)..Len(items) : items[j][1] # k][2]

\* The dict the assignments build, as a function from its keys.
DictOf(items) ==
  [k \in {items[i][1] : i \in 1..Len(items)} |-> LastValue(items, k)]

Range(seq) == {seq[i] : i \in 1..Len(seq)}

\* d[k] = v on a dict d
DictSet(d, k, v) == [x \in DOMAIN d \cup {k} |-> IF x = k THEN v ELSE d[x]]

\* d.pop(k, None) on a dict d: the dict it leaves
DictPop(d, k) == [x \in DOMAIN d \ {k} |-> d[x]]

\* d.get(k) on a dict d
DictGet(d, k) == IF k \in DOMAIN d THEN Some(d[k]) ELSE None

EmptyDict == [x \in {} |-> ""]

----------------------------------------------------------------------------
(* config.py                                                               *)

\* config.py SERVICES, in source order; each url is the default of its setting.
SERVICES ==
  <<
    [name |-> "tenant", url |-> "http://localhost:8001", health |-> "/health/",
     routes |-> <<"/api/tenants/">>],
    [name |-> "auth", url |-> "http://localhost:8002", health |-> "/health/",
     routes |-> <<"/api/auth/">>],
    [name |-> "crm", url |-> "http://localhost:8003", health |-> "/health/",
     routes |-> <<"/api/crm/">>],
    [name |-> "documents", url |-> "http://localhost:8004", health |-> "/health/",
     routes |-> <<"/api/quotes/", "/api/invoices/", "/api/projects/", "/api/devis/", "/api/factures/", "/quotes/", "/invoices/">>],
    [name |-> "library", url |-> "http://localhost:8005", health |-> "/health/",
     routes |-> <<"/api/library/", "/api/categories/", "/api/fournitures/", "/api/main-oeuvre/", "/api/ouvrages/", "/api/ingredients/">>]
  >>

\* config.py LEGACY_ROUTE_MAPPING: every line of the dict literal, in source order,
\* as <<legacy_route, <<service_name, target_path>>>> (repeated keys included).
LEGACY_ROUTE_MAPPING ==
  <<
    <<"/api/auth/login/", <<"auth", "/api/auth/login/">>>>,
    <<"/api/auth/register/", <<"auth", "/api/auth/register/">>>>,
    <<"/api/auth/refresh/", <<"auth", "/api/auth/refresh/">>>>,
    <<"/api/auth/me/", <<"auth", "/api/auth/me/">>>>,
    <<"/auth/login/", <<"auth", "/api/auth/login/">>>>,
    <<"/auth/register/", <<"auth", "/api/auth/register/">>>>,
    <<"/auth/refresh/", <<"auth", "/api/auth/refresh/">>>>,
    <<"/auth/me/", <<"auth", "/api/auth/me/">>>>,
    <<"/api/tenants/{tenant_id}/", <<"tenant", "/api/tenants/{tenant_id}/">>>>,
    <<"/api/tenants/", <<"tenant", "/api/tenants/">>>>,
    <<"/api/tenants/{tenant_id}/validate/", <<"tenant", "/api/tenants/{tenant_id}/validate/">>>>,
    <<"/api/tenants/{tenant_id}/stats/", <<"tenant", "/api/tenants/{tenant_id}/stats/">>>>,
    <<"/api/auth/tenants/{tenant_id}/", <<"tenant", "/api/tenants/{tenant_id}/">>>>,
    <<"/api/auth/tenants/", <<"tenant", "/api/tenants/">>>>,
    <<"/api/auth/tenants/{tenant_id}/validate/", <<"tenant", "/api/tenants/{tenant_id}/validate/">>>>,
    <<"/api/auth/tenants/{tenant_id}/stats/", <<"tenant", "/api/tenants/{tenant_id}/stats/">>>>,
    <<"/api/tiers/frontend_format/", <<"crm", "/api/tiers/frontend_format/">>>>,
    <<"/api/tiers/stats/", <<"crm", "/api/tiers/stats/">>>>,
    <<"/api/tiers/{id}/", <<"crm", "/api/tiers/{id}/">>>>,
    <<"/api/tiers/{id}/vue_360/", <<"crm", "/api/tiers/{id}/vue_360/">>>>,
    <<"/api/tiers/{id}/restaurer/", <<"crm", "/api/tiers/{id}/restore/">>>>,
    <<"/api/tiers/", <<"crm", "/api/tiers/">>>>,
    <<"/api/clients/", <<"crm", "/api/tiers/">>>>,
    <<"/api/prospects/", <<"crm", "/api/tiers/">>>>,
    <<"/api/fournisseurs/", <<"crm", "/api/tiers/">>>>,
    <<"/api/opportunities/", <<"crm", "/api/opportunities/">>>>,
    <<"/api/opportunities/{id}/", <<"crm", "/api/opportunities/{id}/">>>>,
    <<"/api/opportunities/stats/", <<"crm", "/api/opportunities/stats/">>>>,
    <<"/api/opportunities/kanban/", <<"crm", "/api/opportunities/kanban/">>>>,
    <<"/api/opportunities/{id}/update_stage/", <<"crm", "/api/opportunities/{id}/update_stage/">>>>,
    <<"/api/opportunities/{id}/mark_won/", <<"crm", "/api/opportunities/{id}/mark_won/">>>>,
    <<"/api/opportunities/{id}/mark_lost/", <<"crm", "/api/opportunities/{id}/mark_lost/">>>>,
    <<"/tiers/frontend_format/", <<"crm", "/api/crm/tiers/frontend_format/">>>>,
    <<"/tiers/stats/", <<"crm", "/api/crm/tiers/stats/">>>>,
    <<"/tiers/{id}/", <<"crm", "/api/crm/tiers/{id}/">>>>,
    <<"/tiers/{id}/vue_360/", <<"crm", "/api/crm/tiers/{id}/vue_360/">>>>,
    <<"/tiers/{id}/restaurer/", <<"crm", "/api/crm/tiers/{id}/restore/">>>>,
    <<"/tiers/", <<"crm", "/api/crm/tiers/">>>>,
    <<"/clients/", <<"crm", "/api/crm/tiers/">>>>,
    <<"/prospects/", <<"crm", "/api/crm/tiers/">>>>,
    <<"/fournisseurs/", <<"crm", "/api/crm/tiers/">>>>,
    <<"/opportunities/", <<"crm", "/api/crm/opportunities/">>>>,
    <<"/opportunities/{id}/", <<"crm", "/api/crm/opportunities/{id}/">>>>,
    <<"/opportunities/stats/", <<"crm", "/api/crm/opportunities/stats/">>>>,
    <<"/opportunities/kanban/", <<"crm", "/api/crm/opportunities/kanban/">>>>,
    <<"/opportunities/{id}/update_stage/", <<"crm", "/api/crm/opportunities/{id}/update_stage/">>>>,
    <<"/opportunities/{id}/mark_won/", <<"crm", "/api/crm/opportunities/{id}/mark_won/">>>>,
    <<"/opportunities/{id}/mark_lost/", <<"crm", "/api/crm/opportunities/{id}/mark_lost/">>>>,
    <<"/api/devis/", <<"documents", "/api/quotes/">>>>,
    <<"/api/devis/stats/", <<"documents", "/api/quotes/stats/">>>>,
    <<"/api/devis/{id}/", <<"documents", "/api/quotes/{id}/">>>>,
    <<"/api/devis/{id}/send/", <<"documents", "/api/quotes/{id}/send/">>>>,
    <<"/api/devis/{id}/validate/", <<"documents", "/api/quotes/{id}/validate/">>>>,
    <<"/api/devis/{id}/convert_to_invoice/", <<"documents", "/api/quotes/{id}/convert_to_invoice/">>>>,
    <<"/api/devis/{id}/duplicate/", <<"documents", "/api/quotes/{id}/duplicate/">>>>,
    <<"/api/devis/{id}/pdf/", <<"documents", "/api/quotes/{id}/pdf/">>>>,
    <<"/api/devis/{id}/export/", <<"documents", "/api/quotes/{id}/export/">>>>,
    <<"/api/devis/{id}/items/", <<"documents", "/api/quotes/{id}/items/">>>>,
    <<"/api/factures/", <<"documents", "/api/invoices/">>>>,
    <<"/api/factures/stats/", <<"documents", "/api/invoices/stats/">>>>,
    <<"/api/factures/{id}/", <<"documents", "/api/invoices/{id}/">>>>,
    <<"/api/factures/{id}/validate/", <<"documents", "/api/invoices/{id}/validate/">>>>,
    <<"/api/factures/{id}/record_payment/", <<"documents", "/api/invoices/{id}/record_payment/">>>>,
    <<"/api/factures/{id}/create_credit_note/", <<"documents", "/api/invoices/{id}/create_credit_note/">>>>,
    <<"/api/factures/{id}/pdf/", <<"documents", "/api/invoices/{id}/pdf/">>>>,
    <<"/api/factures/{id}/export/", <<"documents", "/api/invoices/{id}/export/">>>>,
    <<"/api/factures/{id}/items/", <<"documents", "/api/invoices/{id}/items/">>>>,
    <<"/api/factures/{id}/payments/", <<"documents", "/api/invoices/{id}/payments/">>>>,
    <<"/api/quotes/", <<"documents", "/api/quotes/">>>>,
    <<"/api/quotes/next-number/", <<"documents", "/api/quotes/next_number/">>>>,
    <<"/api/projects/next-reference/", <<"documents", "/api/projects/next-reference/">>>>,
    <<"/api/quote-items/", <<"documents", "/api/quote-items/">>>>,
    <<"/api/invoices/", <<"documents", "/api/invoices/">>>>,
    <<"/api/invoice-items/", <<"documents", "/api/invoice-items/">>>>,
    <<"/quotes/", <<"documents", "/api/quotes/">>>>,
    <<"/quotes/stats/", <<"documents", "/api/quotes/stats/">>>>,
    <<"/quotes/{id}/", <<"documents", "/api/quotes/{id}/">>>>,
    <<"/quotes/{id}/send/", <<"documents", "/api/quotes/{id}/send/">>>>,
    <<"/quotes/{id}/validate/", <<"documents", "/api/quotes/{id}/validate/">>>>,
    <<"/quotes/{id}/duplicate/", <<"documents", "/api/quotes/{id}/duplicate/">>>>,
    <<"/quotes/{id}/export/", <<"documents", "/api/quotes/{id}/export/">>>>,
    <<"/quotes/{id}/items/", <<"documents", "/api/quotes/{id}/items/">>>>,
    <<"/quote-items/", <<"documents", "/api/quote-items/">>>>,
    <<"/invoices/", <<"documents", "/api/invoices/">>>>,
    <<"/invoices/stats/", <<"documents", "/api/invoices/stats/">>>>,
    <<"/invoices/{id}/", <<"documents", "/api/invoices/{id}/">>>>,
    <<"/invoices/{id}/validate/", <<"documents", "/api/invoices/{id}/validate/">>>>,
    <<"/invoices/{id}/record_payment/", <<"documents", "/api/invoices/{id}/record_payment/">>>>,
    <<"/invoices/{id}/create_credit_note/", <<"documents", "/api/invoices/{id}/create_credit_note/">>>>,
    <<"/invoices/{id}/export/", <<"documents", "/api/invoices/{id}/export/">>>>,
    <<"/invoices/{id}/items/", <<"documents", "/api/invoices/{id}/items/">>>>,
    <<"/invoices/{id}/payments/", <<"documents", "/api/invoices/{id}/payments/">>>>,
    <<"/vat-rates/", <<"documents", "/api/quotes/vat-rates/">>>>,
    <<"/api/quotes/vat-rates/", <<"documents", "/api/quotes/vat-rates/">>>>,
    <<"/api/quotes/payment-terms/", <<"documents", "/api/payment-terms/">>>>,
    <<"/payment-terms/", <<"documents", "/api/payment-terms/">>>>,
    <<"/tenants/{tenant_id}/", <<"tenant", "/api/tenants/{tenant_id}/">>>>,
    <<"/tenants/{tenant_id}/validate/", <<"tenant", "/api/tenants/{tenant_id}/validate/">>>>,
    <<"/tenants/{tenant_id}/stats/", <<"tenant", "/api/tenants/{tenant_id}/stats/">>>>,
    <<"/tenants/current_tenant_info/", <<"tenant", "/api/tenants/current_tenant_info/">>>>,
    <<"/api/tenant/vat_rates/", <<"tenant", "/api/vat_rates/">>>>,
    <<"/api/tenants/vat_rates/", <<"tenant", "/api/vat_rates/">>>>,
    <<"/tenants/vat_rates/", <<"tenant", "/api/vat_rates/">>>>,
    <<"/api/tenants/payment_terms/", <<"tenant", "/api/payment_terms/">>>>,
    <<"/tenants/payment_terms/", <<"tenant", "/api/payment_terms/">>>>,
    <<"/auth/tenants/{tenant_id}/", <<"tenant", "/api/tenants/current_tenant_info/">>>>,
    <<"/auth/tenants/", <<"tenant", "/api/tenants/">>>>,
    <<"/api/document_appearance/", <<"tenant", "/api/document_appearance/">>>>,
    <<"/api/document_appearance/defaults/", <<"tenant", "/api/document_appearance/defaults/">>>>,
    <<"/api/document_appearance/templates/", <<"tenant", "/api/document_appearance/templates/">>>>,
    <<"/api/document_appearance/presets/", <<"tenant", "/api/document_appearance/presets/">>>>,
    <<"/api/document_appearance/colors/", <<"tenant", "/api/document_appearance/colors/">>>>,
    <<"/document_appearance/", <<"tenant", "/api/document_appearance/">>>>,
    <<"/document_appearance/defaults/", <<"tenant", "/api/document_appearance/defaults/">>>>,
    <<"/document_appearance/templates/", <<"tenant", "/api/document_appearance/templates/">>>>,
    <<"/document_appearance/presets/", <<"tenant", "/api/document_appearance/presets/">>>>,
    <<"/document_appearance/colors/", <<"tenant", "/api/document_appearance/colors/">>>>,
    <<"/api/library/categories/", <<"library", "/api/categories/">>>>,
    <<"/api/library/fournitures/", <<"library", "/api/fournitures/">>>>,
    <<"/api/library/main-oeuvre/", <<"library", "/api/main-oeuvre/">>>>,
    <<"/api/library/ouvrages/", <<"library", "/api/ouvrages/">>>>,
    <<"/api/library/ingredients/", <<"library", "/api/ingredients/">>>>,
    <<"/api/library/search/", <<"library", "/api/search/">>>>,
    <<"/api/library/composite/", <<"library", "/api/composite/">>>>,
    <<"/api/library/composite/all_items/", <<"library", "/api/composite/all_items/">>>>,
    <<"/api/categories/", <<"library", "/api/categories/">>>>,
    <<"/api/fournitures/", <<"library", "/api/fournitures/">>>>,
    <<"/api/main-oeuvre/", <<"library", "/api/main-oeuvre/">>>>,
    <<"/api/ouvrages/", <<"library", "/api/ouvrages/">>>>,
    <<"/api/ingredients/", <<"library", "/api/ingredients/">>>>,
    <<"/categories/", <<"library", "/api/categories/">>>>,
    <<"/fournitures/", <<"library", "/api/fournitures/">>>>,
    <<"/main-oeuvre/", <<"library", "/api/main-oeuvre/">>>>,
    <<"/ouvrages/", <<"library", "/api/ouvrages/">>>>,
    <<"/ingredients/", <<"library", "/api/ingredients/">>>>,
    <<"/library/search/", <<"library", "/api/search/">>>>,
    <<"/library/composite/", <<"library", "/api/composite/">>>>,
    <<"/library/composite/all_items/", <<"library", "/api/composite/all_items/">>>>,
    <<"/api/library/categories/", <<"library", "/api/categories/">>>>,
    <<"/api/library/fournitures/", <<"library", "/api/fournitures/">>>>,
    <<"/api/library/main-oeuvre/", <<"library", "/api/main-oeuvre/">>>>,
    <<"/api/library/ouvrages/", <<"library", "/api/ouvrages/">>>>,
    <<"/api/library/ingredients/", <<"library", "/api/ingredients/">>>>,
    <<"/api/categories/", <<"library", "/api/categories/">>>>,
    <<"/api/fournitures/", <<"library", "/api/fournitures/">>>>,
    <<"/api/main-oeuvre/", <<"library", "/api/main-oeuvre/">>>>,
    <<"/api/ouvrages/", <<"library", "/api/ouvrages/">>>>,
    <<"/api/ingredients/", <<"library", "/api/ingredients/">>>>,
    <<"/api/categories/racines/", <<"library", "/api/categories/racines/">>>>,
    <<"/api/categories/stats/", <<"library", "/api/categories/stats/">>>>,
    <<"/api/fournitures/stats/", <<"library", "/api/fournitures/stats/">>>>,
    <<"/api/fournitures/par_categorie/", <<"library", "/api/fournitures/par_categorie/">>>>,
    <<"/api/main-oeuvre/stats/", <<"library", "/api/main-oeuvre/stats/">>>>,
    <<"/api/main-oeuvre/par_categorie/", <<"library", "/api/main-oeuvre/par_categorie/">>>>,
    <<"/api/ouvrages/stats/", <<"library", "/api/ouvrages/stats/">>>>,
    <<"/api/ouvrages/par_categorie/", <<"library", "/api/ouvrages/par_categorie/">>>>,
    <<"/api/ingredients/stats/", <<"library", "/api/ingredients/stats/">>>>,
    <<"/api/ingredients/par_ouvrage/", <<"library", "/api/ingredients/par_ouvrage/">>>>
  >>

\* The allow-list without its two tenants entries.
PUBLIC_ROUTES_without_tenants ==
  <<"/health/", "/docs", "/redoc", "/openapi.json", "/api/auth/login/",
    "/api/auth/register/", "/auth/login/", "/auth/register/", "/vat-rates/",
    "/api/quotes/vat-rates/", "/api/library/health/">>

PUBLIC_ROUTES ==
  <<"/health/",
    "/docs",
    "/redoc",
    "/openapi.json",
    "/api/auth/login/",
    "/api/auth/register/",
    "/auth/login/",
    "/auth/register/",
    "/api/tenants/",
    "/tenants/",
    "/vat-rates/",
    "/api/quotes/vat-rates/",
    "/api/library/health/">>

----------------------------------------------------------------------------
(* app/router.py: ServiceRouter                                            *)

\* self.services = SERVICES: the dict, from service name to its settings
services == DictOf([i \in 1..Len(SERVICES) |-> <<SERVICES[i].name, SERVICES[i]>>])

\* self.services.items(), in iteration order
ServiceItems ==
  LET items == [i \in 1..Len(SERVICES) |-> <<SERVICES[i].name, SERVICES[i]>>]
      keys == KeysInOrder(items)
  IN  [n \in 1..Len(keys) |-> <<keys[n], LastValue(items, keys[n])>>]

\* self.legacy_mapping.items(), in iteration order: the dict literal keeps one
\* item per key, at the place of the key's first line, with its last value
LegacyItems ==
  LET keys == KeysInOrder(LEGACY_ROUTE_MAPPING)
  IN  [n \in 1..Len(keys) |-> <<keys[n], LastValue(LEGACY_ROUTE_MAPPING, keys[n])>>]

\* _compile_route_cache step 1: one exact entry per legacy route whose service
\* is configured
ExactAssignments ==
  LET known == SelectSeq(LegacyItems, LAMBDA it : it[2][1] \in DOMAIN services)
  IN  [n \in 1..Len(known) |->
        <<known[n][1], <<services[known[n][2][1]].url, known[n][2][2]>>>>]

CompileRouteCache == DictOf(ExactAssignments)

\* _compile_route_cache step 2: one prefix entry per legacy route whose
\* service is configured, both sides without their trailing slashes
LegacyPrefixAssignments ==
  LET known == SelectSeq(LegacyItems, LAMBDA it : it[2][1] \in DOMAIN services)
  IN  [n \in 1..Len(known) |->
        <<RStripSlash(known[n][1]),
          <<services[known[n][2][1]].url,
            RStripSlash(known[n][1]),
            RStripSlash(known[n][2][2])>>>>]

\* _compile_route_cache step 3: one prefix entry per route of each service, not
\* rewritten
RECURSIVE ServicePrefixAssignmentsFrom(_)
ServicePrefixAssignmentsFrom(n) ==
  IF n > Len(ServiceItems) THEN <<>>
  ELSE LET config == ServiceItems[n][2]
       IN  [i \in 1..Len(config.routes) |->
             <<config.routes[i], <<config.url, config.routes[i], config.routes[i]>>>>]
           \o ServicePrefixAssignmentsFrom(n + 1)

\* Step 3 registers nothing.
ServicePrefixAssignmentsNone == <<>>

ServicePrefixAssignments == ServicePrefixAssignmentsFrom(1)

\* the assignments to self._prefix_map, in program order
PrefixAssignments == LegacyPrefixAssignments \o ServicePrefixAssignments

CompilePrefixMap == DictOf(PrefixAssignments)

\* sorted(keys, key=len, reverse=True): longest first, keys of one length in
\* their given order (the sort is stable)
SortByLenDesc(keys) ==
  LET lens == {Len(keys[i]) : i \in 1..Len(keys)}
      RECURSIVE From(_)
      From(l) ==
        IF l < 0 THEN <<>>
        ELSE SelectSeq(keys, LAMBDA k : Len(k) = l) \o From(l - 1)
  IN  IF lens = {} THEN <<>>
      ELSE From(CHOOSE l \in lens : \A m \in lens : m <= l)

\* The keys are left in insertion order.
CompileSortedPrefixesUnsorted == KeysInOrder(PrefixAssignments)

\* _compile_route_cache step 4
CompileSortedPrefixes == SortByLenDesc(KeysInOrder(PrefixAssignments))

\* Every occurrence of the old prefix is replaced.
TransformPathEverywhere(path, old_prefix, new_prefix) ==
  IF old_prefix # new_prefix
    THEN ReplaceAll(path, old_prefix, new_prefix)
    ELSE path

\* The target path of a prefix hit (resolve_service, lines 77-83).
TransformPath(path, old_prefix, new_prefix) ==
  IF old_prefix # new_prefix
    THEN ReplaceOnce(path, old_prefix, new_prefix)
    ELSE path

\* The exact step never hits, so every path goes to the prefix scan.
InRouteCacheNever(rc, path) == FALSE

\* "path in self._route_cache" (line 69)
InRouteCache(rc, path) == path \in DOMAIN rc

\* tpl matches path from place i of path and place j of tpl on, a "{name}" of
\* tpl standing for one non-empty path segment.
RECURSIVE TemplateMatchAt(_, _, _, _)
TemplateMatchAt(path, tpl, i, j) ==
  IF j > Len(tpl) THEN TRUE
  ELSE IF i > Len(path) THEN FALSE
  ELSE IF CharAt(tpl, j) = "{"
    THEN LET closing == {k \in j..Len(tpl) : CharAt(tpl, k) = "}"}
             close == IF closing = {} THEN Len(tpl)
                      ELSE CHOOSE k \in closing : \A m \in closing : k <= m
             slashes == {k \in i..Len(path) : CharAt(path, k) = "/"}
             stop == IF slashes = {} THEN Len(path) + 1
                     ELSE CHOOSE k \in slashes : \A m \in slashes : k <= m
         IN  stop > i /\ TemplateMatchAt(path, tpl, stop, close + 1)
    ELSE CharAt(path, i) = CharAt(tpl, j) /\ TemplateMatchAt(path, tpl, i + 1, j + 1)

\* The scan pattern-matches the placeholders of a prefix against the path.
PrefixHitsTemplated(sp, path) ==
  {i \in 1..Len(sp) : TemplateMatchAt(path, sp[i], 1, 1)}

\* The scan compares with == where the code calls startswith.
PrefixHitsEqual(sp, path) == {i \in 1..Len(sp) : path = sp[i]}

\* The places in self._sorted_prefixes of the prefixes path starts with (lines
\* 75-76); the loop stops at the first.
PrefixHits(sp, path) == {i \in 1..Len(sp) : StartsWith(path, sp[i])}

\* The inbound path is memoized in place of the target path.
MemoizeInboundPath(rc, path, service_url, target_path) ==
  DictSet(rc, path, <<service_url, path>>)

\* The answer is stored under the target path as well.
MemoizeTargetToo(rc, path, service_url, target_path) ==
  DictSet(DictSet(rc, path, <<service_url, target_path>>),
          target_path, <<service_url, target_path>>)

\* self._route_cache[path] = (service_url, target_path) (line 88)
Memoize(rc, path, service_url, target_path) ==
  DictSet(rc, path, <<service_url, target_path>>)

\* resolve_service(path) on a router whose fields are rc (_route_cache), pm
\* (_prefix_map) and sp (_sorted_prefixes): what it returns or raises, the
\* _route_cache it leaves, and which step answered (layer, prefix).
resolve_service(rc, pm, sp, path) ==
  IF InRouteCache(rc, path)
    THEN [found |-> TRUE, service_url |-> rc[path][1], target_path |-> rc[path][2],
          route_cache |-> rc, layer |-> "exact", prefix |-> None,
          status_code |-> 0, detail |-> ""]
    ELSE
      LET hits == PrefixHits(sp, path)
      IN  IF hits # {}
            THEN
              LET prefix == sp[CHOOSE i \in hits : \A j \in hits : i <= j]
                  service_url == pm[prefix][1]
                  target_path == TransformPath(path, pm[prefix][2], pm[prefix][3])
              IN  [found |-> TRUE, service_url |-> service_url,
                   target_path |-> target_path,
                   route_cache |-> Memoize(rc, path, service_url, target_path),
                   layer |-> "prefix", prefix |-> Some(prefix),
                   status_code |-> 0, detail |-> ""]
            ELSE [found |-> FALSE, service_url |-> "", target_path |-> "",
                  route_cache |-> rc, layer |-> "none", prefix |-> None,
                  status_code |-> 404, detail |-> "Route non configurée: " \o path]

----------------------------------------------------------------------------
(* middleware.py: JWTMiddleware                                            *)

\* The allow-list is searched with == where the code calls startswith.
is_public_route_equal(path, method) ==
  IF \E i \in 1..Len(PUBLIC_ROUTES) : path = PUBLIC_ROUTES[i]
    THEN TRUE
  ELSE IF StartsWith(path, "/api/tenants/") /\ method = "GET"
    THEN TRUE
  ELSE IF path = "/api/quotes/vat-rates/" \/ path = "/vat-rates/"
    THEN TRUE
  ELSE FALSE

\* is_public_route(path, method)
is_public_route(path, method) ==
  IF \E i \in 1..Len(PUBLIC_ROUTES) : StartsWith(path, PUBLIC_ROUTES[i])
    THEN TRUE
  ELSE IF StartsWith(path, "/api/tenants/") /\ method = "GET"
    THEN TRUE
  ELSE IF path = "/api/quotes/vat-rates/" \/ path = "/vat-rates/"
    THEN TRUE
  ELSE FALSE

\* The scheme is compared without lower().
extract_token_case_sensitive(authorization) ==
  IF authorization = None \/ authorization = Some("")
    THEN None
    ELSE
      LET auth_parts == Split(authorization[1])
      IN  IF Len(auth_parts) # 2 THEN None
          ELSE IF auth_parts[1] # "Bearer" THEN None
          ELSE Some(auth_parts[2])

\* extract_token(authorization): authorization is None or Some(header value)
extract_token(authorization) ==
  IF authorization = None \/ authorization = Some("")
    THEN None
    ELSE
      LET auth_parts == Split(authorization[1])
      IN  IF Len(auth_parts) # 2 THEN None
          ELSE IF Lower(auth_parts[1]) # "bearer" THEN None
          ELSE Some(auth_parts[2])

\* The tokens in circulation that are well-formed JWTs: whether the signature
\* verifies under JWT_SECRET_KEY and JWT_ALGORITHM, whether the exp claim has
\* passed, and the claims of the payload (None: the claim is absent).  Every
\* other string is not a JWT.
IssuedTokens ==
  { [token |-> "jwt.full", signature_ok |-> TRUE, expired |-> FALSE,
     payload |-> [user_id |-> Some("u1"), tenant_id |-> Some("t1"),
                  email |-> Some("u1@example.com")]],
    [token |-> "jwt.noemail", signature_ok |-> TRUE, expired |-> FALSE,
     payload |-> [user_id |-> Some("u2"), tenant_id |-> Some("t1"),
                  email |-> None]],
    [token |-> "jwt.nouser", signature_ok |-> TRUE, expired |-> FALSE,
     payload |-> [user_id |-> None, tenant_id |-> Some("t1"),
                  email |-> Some("x@example.com")]],
    [token |-> "jwt.notenant", signature_ok |-> TRUE, expired |-> FALSE,
     payload |-> [user_id |-> Some("u3"), tenant_id |-> None,
                  email |-> Some("u3@example.com")]],
    [token |-> "jwt.emptytenant", signature_ok |-> TRUE, expired |-> FALSE,
     payload |-> [user_id |-> Some("u4"), tenant_id |-> Some(""),
                  email |-> Some("u4@example.com")]],
    [token |-> "jwt.expired", signature_ok |-> TRUE, expired |-> TRUE,
     payload |-> [user_id |-> Some("u1"), tenant_id |-> Some("t1"),
                  email |-> Some("u1@example.com")]],
    [token |-> "jwt.forged", signature_ok |-> FALSE, expired |-> FALSE,
     payload |-> [user_id |-> Some("u1"), tenant_id |-> Some("t9"),
                  email |-> Some("u1@example.com")]],
    [token |-> "jwt.forged.expired", signature_ok |-> FALSE, expired |-> TRUE,
     payload |-> [user_id |-> Some("u1"), tenant_id |-> Some("t9"),
                  email |-> Some("u1@example.com")]] }

NoPayload == [user_id |-> None, tenant_id |-> None, email |-> None]

NoUser == [user_id |-> "", tenant_id |-> "", email |-> None]

\* jwt.decode(token, JWT_SECRET_KEY, algorithms=[JWT_ALGORITHM]): the payload,
\* or the exception raised.  The signature is verified before the exp claim;
\* a string that is no JWT and a bad signature both raise a subclass of
\* InvalidTokenError.
jwt_decode(token) ==
  IF \A t \in IssuedTokens : t.token # token
    THEN [raised |-> "InvalidTokenError", payload |-> NoPayload]
    ELSE
      LET t == CHOOSE t \in IssuedTokens : t.token = token
      IN  IF ~t.signature_ok
            THEN [raised |-> "InvalidTokenError", payload |-> NoPayload]
          ELSE IF t.expired
            THEN [raised |-> "ExpiredSignatureError", payload |-> NoPayload]
          ELSE [raised |-> "", payload |-> t.payload]

\* Python's "not v" for a claim value read with payload.get
Falsy(v) == v = None \/ v = Some("")

\* The claims are required with "and" where the code has "or".
validate_token_try_either_claim(token) ==
  LET decoded == jwt_decode(token)
      user_id == decoded.payload.user_id
      tenant_id == decoded.payload.tenant_id
  IN  IF decoded.raised # ""
        THEN [raised |-> decoded.raised, status_code |-> 0, detail |-> "",
              user |-> NoUser]
      ELSE IF Falsy(user_id) /\ Falsy(tenant_id)
        THEN [raised |-> "HTTPException", status_code |-> 401,
              detail |-> "Token JWT valide mais informations utilisateur manquantes",
              user |-> NoUser]
      ELSE [raised |-> "", status_code |-> 0, detail |-> "",
            user |-> [user_id |-> IF user_id = None THEN "" ELSE user_id[1],
                      tenant_id |-> IF tenant_id = None THEN "" ELSE tenant_id[1],
                      email |-> decoded.payload.email]]

\* The try block of validate_token (lines 79-112): the user_data it returns, or
\* the exception that leaves it.
validate_token_try(token) ==
  LET decoded == jwt_decode(token)
      user_id == decoded.payload.user_id
      tenant_id == decoded.payload.tenant_id
  IN  IF decoded.raised # ""
        THEN [raised |-> decoded.raised, status_code |-> 0, detail |-> "",
              user |-> NoUser]
      ELSE IF Falsy(user_id) \/ Falsy(tenant_id)
        THEN [raised |-> "HTTPException", status_code |-> 401,
              detail |-> "Token JWT valide mais informations utilisateur manquantes",
              user |-> NoUser]
      ELSE [raised |-> "", status_code |-> 0, detail |-> "",
            user |-> [user_id |-> user_id[1], tenant_id |-> tenant_id[1],
                      email |-> decoded.payload.email]]

\* validate_token(token): the except clauses, tried in order, over the try
\* block.  An HTTPException raised inside the try block is an Exception, so
\* the last clause catches it.
validate_token(token) ==
  LET try == validate_token_try(token)
  IN  IF try.raised = ""
        THEN [raised |-> FALSE, status_code |-> 0, detail |-> "",
              headers |-> EmptyDict, user |-> Some(try.user)]
      ELSE IF try.raised = "ExpiredSignatureError"
        THEN [raised |-> TRUE, status_code |-> 401, detail |-> "Token JWT expiré",
              headers |-> EmptyDict, user |-> None]
      ELSE IF try.raised = "InvalidTokenError"
        THEN [raised |-> TRUE, status_code |-> 401, detail |-> "Token JWT invalide",
              headers |-> EmptyDict, user |-> None]
      ELSE [raised |-> TRUE, status_code |-> 401,
            detail |-> "Erreur de validation du token",
            headers |-> EmptyDict, user |-> None]

----------------------------------------------------------------------------
(* app/auth.py                                                             *)

\* A request without a token is let through as anonymous.
get_current_user_anonymous(method, path, headers) ==
  IF is_public_route(path, method)
    THEN [raised |-> FALSE, status_code |-> 0, detail |-> "",
          headers |-> EmptyDict, user |-> None, validated |-> 0]
    ELSE
      LET authorization == DictGet(headers, "authorization")
          token == extract_token(authorization)
      IN  IF token = None
            THEN [raised |-> FALSE, status_code |-> 0, detail |-> "",
                  headers |-> EmptyDict, user |-> None, validated |-> 0]
            ELSE [validated |-> 1] @@ validate_token(token[1])

\* get_current_user(request): the user it returns (None on a public route) or
\* the HTTPException it raises; validated counts the calls of validate_token.
get_current_user(method, path, headers) ==
  IF is_public_route(path, method)
    THEN [raised |-> FALSE, status_code |-> 0, detail |-> "",
          headers |-> EmptyDict, user |-> None, validated |-> 0]
    ELSE
      LET authorization == DictGet(headers, "authorization")
          token == extract_token(authorization)
      IN  IF token = None
            THEN [raised |-> TRUE, status_code |-> 401,
                  detail |-> "Token d'authentification requis",
                  headers |-> [x \in {"WWW-Authenticate"} |-> "Bearer"],
                  user |-> None, validated |-> 0]
            ELSE [validated |-> 1] @@ validate_token(token[1])

----------------------------------------------------------------------------
(* The gateway process: the router built at import time (app/router.py,    *)
(* line 190) and the requests to the catch-all route (app/factory.py,      *)
(* line 46), each handled by get_current_user and then proxy_request.      *)

\* the number of requests in flight together
NumRequests == 2

Requests == 1..NumRequests

\* The upstream statuses a backend answers with.
UpstreamStatuses == {200, 404, 503}

\* response.headers.items() of the backend's response: <<name, value>> pairs,
\* one per name, the names written as the backend wrote them.
UpstreamHeaderItems ==
  { << <<"content-type", "text/plain">>, <<"content-encoding", "gzip">>,
       <<"x-request-id", "r1">> >>,
    << <<"Transfer-Encoding", "chunked">>, <<"Connection", "keep-alive">>,
       <<"X-Trace", "t1">> >> }

\* AsyncClient(timeout=30.0) (line 76): the seconds the client waits for the
\* backend before it raises a timeout.
ProxyTimeout == 30

\* The responses of a backend: status, headers, content, and the seconds the
\* backend took to answer (at once, or after 20 seconds for a 200 with the
\* second set of headers), and an answer that takes 40 seconds.
UpstreamResponses ==
  { [status_code |-> s, headers |-> h,
     content |-> IF s = 200 THEN "{\"ok\": true}" ELSE "{\"error\": true}",
     elapsed |-> IF s = 200 /\ h[1][1] = "Transfer-Encoding" THEN 20 ELSE 0] :
      s \in UpstreamStatuses, h \in UpstreamHeaderItems }
  \cup
  { [status_code |-> 200, headers |-> <<>>, content |-> "{\"ok\": true}",
     elapsed |-> 40] }

NoResponse == [status_code |-> 0, headers |-> <<>>, content |-> "", elapsed |-> 0]

\* The exception classes client.request raises, each with the classes it is an
\* instance of (httpx's hierarchy, and the builtin TypeError), and its str().
ExceptionBases ==
  [exc \in {"ReadTimeout", "ConnectError", "RemoteProtocolError", "RuntimeError",
            "TypeError"} |->
     CASE exc = "ReadTimeout" ->
            {"ReadTimeout", "TimeoutException", "TransportError", "RequestError",
             "HTTPError", "Exception"}
       [] exc = "ConnectError" ->
            {"ConnectError", "NetworkError", "TransportError", "RequestError",
             "HTTPError", "Exception"}
       [] exc = "RemoteProtocolError" ->
            {"RemoteProtocolError", "ProtocolError", "TransportError",
             "RequestError", "HTTPError", "Exception"}
       [] exc = "RuntimeError" -> {"RuntimeError", "Exception"}
       [] exc = "TypeError" -> {"TypeError", "Exception"}]

\* isinstance(exc, cls)
IsInstance(exc, cls) == cls \in ExceptionBases[exc]

\* str(e)
StrOf(exc) ==
  CASE exc = "ReadTimeout" -> "timed out"
    [] exc = "ConnectError" -> "All connection attempts failed"
    [] exc = "RemoteProtocolError" -> "Server disconnected without sending a response."
    [] exc = "RuntimeError" -> "Event loop is closed"
    [] exc = "TypeError" -> "Header value must be str or bytes"

\* The exceptions that end the awaited call.
UpstreamExceptions == {"ReadTimeout", "ConnectError", "RemoteProtocolError", "RuntimeError"}

\* The inbound requests: method, path, the request headers as Starlette gives
\* them (lower-case names), the query parameters as request.query_params
\* holds them (<<key, value>> pairs, a key as often as the query string has
\* it) and the raw body.
Bearer(token) == [x \in {"authorization"} |-> "Bearer " \o token]

Envelopes ==
  \* resolution, with a valid token
  { [method |-> "GET", path |-> p, headers |-> Bearer("jwt.full"),
     query_params |-> <<>>, body |-> ""] :
      p \in {"/api/devis/", "/api/devis/123/", "/api/tiers/stats/", "/tiers/42/",
             "/api/auth/tenants/5/", "/api/unknown/"} }
  \cup
  \* public routes, without credentials
  { [method |-> "POST", path |-> "/api/tenants/7/", headers |-> EmptyDict,
     query_params |-> <<>>, body |-> "{\"name\": \"t7\"}"],
    [method |-> "GET", path |-> "/docsify", headers |-> EmptyDict,
     query_params |-> <<>>, body |-> ""] }
  \cup
  \* a protected route, with each kind of credentials
  { [method |-> "POST", path |-> "/api/devis/123/", headers |-> h,
     query_params |-> <<>>, body |-> "{\"total\": 10}"] :
      h \in {EmptyDict,
             [x \in {"authorization"} |-> "Basic xxx"],
             Bearer("jwt.expired"),
             Bearer("jwt.forged"),
             Bearer("jwt.notenant"),
             [x \in {"authorization"} |-> "bearer jwt.noemail"]} }
  \cup
  \* a body with its transport headers, and a repeated query parameter
  { [method |-> "PUT", path |-> "/api/tiers/42/",
     headers |-> [x \in {"authorization", "host", "content-length",
                         "content-encoding", "transfer-encoding", "accept"} |->
                    CASE x = "authorization" -> "Bearer jwt.full"
                      [] x = "host" -> "gateway.example.com"
                      [] x = "content-length" -> "13"
                      [] x = "content-encoding" -> "gzip"
                      [] x = "transfer-encoding" -> "chunked"
                      [] x = "accept" -> "*/*"],
     query_params |-> <<>>, body |-> "{\"nom\": \"x\"}"],
    [method |-> "GET", path |-> "/api/tiers/", headers |-> Bearer("jwt.full"),
     query_params |-> << <<"tag", "a">>, <<"page", "1">>, <<"tag", "b">> >>,
     body |-> ""] }
  \cup
  \* the library routes, without credentials
  { [method |-> "GET", path |-> p, headers |-> EmptyDict,
     query_params |-> <<>>, body |-> ""] :
      p \in {"/api/categories/", "/categories/", "/api/library/"} }
  \cup
  \* identity headers written by the client, on a public route and beside a
  \* valid token
  { [method |-> "POST", path |-> "/api/tenants/7/",
     headers |-> [x \in {"x-user-id", "x-tenant-id"} |->
                    IF x = "x-user-id" THEN "admin" ELSE "t9"],
     query_params |-> <<>>, body |-> "{\"name\": \"t7\"}"],
    [method |-> "GET", path |-> "/api/devis/123/",
     headers |-> [x \in {"authorization", "x-user-id"} |->
                    IF x = "authorization" THEN "Bearer jwt.full" ELSE "admin"],
     query_params |-> <<>>, body |-> ""] }
  \cup
  \* a write on the tenants route, with a token no validation would accept
  { [method |-> "DELETE", path |-> "/api/tenants/7/", headers |-> Bearer("jwt.forged"),
     query_params |-> <<>>, body |-> ""] }

\* The GET routes of static_router (app/endpoints.py), which are matched
\* before the catch-all route.
StaticGetRoutes == {"/", "/health/", "/api/quotes/vat-rates/", "/vat-rates/default/"}

VARIABLES
  route_cache,      \* router._route_cache
  prefix_map,       \* router._prefix_map
  sorted_prefixes,  \* router._sorted_prefixes
  req,              \* the requests: where each is in its handler, and its locals
  probe,            \* one call of is_public_route and of extract_token: arguments, results
  health            \* one call of GET /health/: its tasks, its report, its response

vars == <<route_cache, prefix_map, sorted_prefixes, req, probe, health>>

\* No call of client.request.
NoUpstreamRequest == [method |-> "", url |-> "", content |-> "", params |-> <<>>]

\* A request that has not arrived.
NoRequest ==
  [pc |-> "idle", method |-> "", path |-> "", headers |-> EmptyDict,
   query_params |-> <<>>, body |-> "",
   current_user |-> None, validate_calls |-> 0,
   resolver_calls |-> 0, layer |-> "none", prefix |-> None,
   service_url |-> "", target_path |-> "", full_url |-> "",
   upstream_headers |-> EmptyDict, upstream_calls |-> 0,
   upstream_request |-> NoUpstreamRequest, upstream_response |-> NoResponse,
   exception |-> "", waited |-> 0,
   status_code |-> 0, detail |-> "", response_headers |-> EmptyDict,
   content |-> "", media_type |-> "", origin |-> ""]

\* No call of the probe.
NoProbe ==
  [stage |-> "none", method |-> "", path |-> "", authorization |-> None,
   is_public |-> FALSE, token |-> None,
   calls |-> 0,
   resolved |-> [found |-> FALSE, service_url |-> "", target_path |-> "",
                 layer |-> "none", prefix |-> None],
   main |-> [found |-> FALSE, service_url |-> "", target_path |-> "",
             step |-> 0]]

\* The tasks of health_check_all, one per service, before they are created.
NoOutcome == [status_code |-> 0, exception |-> ""]

NoResult == [status |-> "", url |-> None, error |-> ""]

NoTasks ==
  [s \in 1..Len(SERVICES) |->
     [state |-> "none", outcome |-> NoOutcome, result |-> NoResult]]

\* No call of GET /health/.
NoHealth ==
  [pc |-> "idle", tasks |-> NoTasks, services |-> EmptyDict,
   gateway_status |-> "", overall_status |-> "", status_code |-> 0]

\* ServiceRouter.__init__
Init ==
  /\ route_cache = CompileRouteCache
  /\ prefix_map = CompilePrefixMap
  /\ sorted_prefixes = CompileSortedPrefixes
  /\ req = [r \in Requests |-> NoRequest]
  /\ probe = NoProbe
  /\ health = NoHealth

\* A request arrives at the catch-all route.
Receive(r, e) ==
  /\ req[r].pc = "idle"
  /\ ~(e.method = "GET" /\ e.path \in StaticGetRoutes)
  /\ req' = [req EXCEPT ![r] = [@ EXCEPT !.pc = "auth", !.method = e.method,
                                         !.path = e.path, !.headers = e.headers,
                                         !.query_params = e.query_params,
                                         !.body = e.body]]
  /\ UNCHANGED <<route_cache, prefix_map, sorted_prefixes, probe, health>>

\* The dependency get_current_user runs; an HTTPException it raises is the
\* response, and proxy_request is not called.
Authenticate(r) ==
  /\ req[r].pc = "auth"
  /\ LET got == get_current_user(req[r].method, req[r].path, req[r].headers)
     IN  req' = [req EXCEPT ![r] =
           IF got.raised
             THEN [@ EXCEPT !.pc = "done", !.validate_calls = got.validated,
                            !.status_code = got.status_code, !.detail = got.detail,
                            !.response_headers = got.headers, !.origin = "gateway"]
             ELSE [@ EXCEPT !.pc = "proxy", !.validate_calls = got.validated,
                            !.current_user = got.user]]
  /\ UNCHANGED <<route_cache, prefix_map, sorted_prefixes, probe, health>>

\* The headers proxy_request prepares (lines 48-66): the request's, the caller's
\* identity when there is one, without host and content-length.  A value is
\* None when current_user["email"] is None.
PrepareHeaders(headers, current_user) ==
  LET initial == [k \in DOMAIN headers |-> Some(headers[k])]
      identified ==
        IF current_user # None
          THEN DictSet(DictSet(DictSet(initial,
                 "X-User-ID", Some(current_user[1].user_id)),
                 "X-Tenant-ID", Some(current_user[1].tenant_id)),
                 "X-User-Email", current_user[1].email)
          ELSE initial
  IN  DictPop(DictPop(identified, "host"), "content-length")

\* proxy_request up to its first await (lines 27-66): the route is resolved,
\* which may memoize it, and the upstream headers are prepared.
Resolve(r) ==
  /\ req[r].pc = "proxy"
  /\ LET res == resolve_service(route_cache, prefix_map, sorted_prefixes, req[r].path)
     IN  /\ route_cache' = res.route_cache
         /\ req' = [req EXCEPT ![r] =
              IF res.found
                THEN [@ EXCEPT !.pc = "send", !.resolver_calls = @ + 1,
                               !.layer = res.layer, !.prefix = res.prefix,
                               !.service_url = res.service_url,
                               !.target_path = res.target_path,
                               !.full_url = res.service_url \o res.target_path,
                               !.upstream_headers =
                                 PrepareHeaders(req[r].headers, req[r].current_user)]
                ELSE [@ EXCEPT !.pc = "done", !.resolver_calls = @ + 1,
                               !.status_code = 404,
                               !.detail = "Route non trouvée: " \o req[r].path,
                               !.origin = "gateway"]]
  /\ UNCHANGED <<prefix_map, sorted_prefixes, probe, health>>

\* dict(request.query_params) (line 87): the items of the dict, one per key,
\* each key with its last value.
QueryParamsDict(query_params) ==
  LET keys == KeysInOrder(query_params)
  IN  [n \in 1..Len(keys) |-> <<keys[n], LastValue(query_params, keys[n])>>]

\* The clause for RequestError is tried before the one for TimeoutException.
proxy_request_except_request_error_first(exc) ==
  IF IsInstance(exc, "RequestError")
    THEN [status_code |-> 503,
          detail |-> "Service temporairement indisponible: " \o StrOf(exc)]
  ELSE IF IsInstance(exc, "TimeoutException")
    THEN [status_code |-> 504,
          detail |-> "Le service backend a mis trop de temps à répondre"]
  ELSE [status_code |-> 500, detail |-> "Erreur interne du gateway"]

\* The except clauses of proxy_request (lines 114-136), tried in order: the
\* HTTPException raised for an exception of the call.
proxy_request_except(exc) ==
  IF IsInstance(exc, "TimeoutException")
    THEN [status_code |-> 504,
          detail |-> "Le service backend a mis trop de temps à répondre"]
  ELSE IF IsInstance(exc, "RequestError")
    THEN [status_code |-> 503,
          detail |-> "Service temporairement indisponible: " \o StrOf(exc)]
  ELSE [status_code |-> 500, detail |-> "Erreur interne du gateway"]

\* After a timeout the call is attempted again.
RaiseOrRetry(request, exc) ==
  IF IsInstance(exc, "TimeoutException")
    THEN [request EXCEPT !.pc = "send"]
    ELSE [request EXCEPT !.pc = "done", !.exception = exc,
                         !.status_code = proxy_request_except(exc).status_code,
                         !.detail = proxy_request_except(exc).detail,
                         !.origin = "gateway"]

\* The request ends with the HTTPException raised for exc.
Raise(request, exc) ==
  [request EXCEPT !.pc = "done", !.exception = exc,
                  !.status_code = proxy_request_except(exc).status_code,
                  !.detail = proxy_request_except(exc).detail,
                  !.origin = "gateway"]

\* request.body() and client.request (lines 68-88): the one call of
\* client.request, with the method, the URL, the body, the prepared headers
\* and dict(request.query_params).  httpx refuses a header whose value is
\* None with a TypeError before anything is sent; otherwise the call awaits
\* the backend.
Send(r) ==
  /\ req[r].pc = "send"
  /\ LET called == [req[r] EXCEPT
                      !.upstream_calls = @ + 1,
                      !.upstream_request =
                        [method |-> req[r].method, url |-> req[r].full_url,
                         content |-> req[r].body,
                         params |-> QueryParamsDict(req[r].query_params)]]
     IN  req' = [req EXCEPT ![r] =
           IF \E k \in DOMAIN called.upstream_headers : called.upstream_headers[k] = None
             THEN Raise(called, "TypeError")
             ELSE [called EXCEPT !.pc = "await"]]
  /\ UNCHANGED <<route_cache, prefix_map, sorted_prefixes, probe, health>>

\* The names of the headers a response is not given (line 104).
StrippedResponseHeaders == {"content-encoding", "transfer-encoding", "connection"}

\* The names are compared as they are written.
FilterResponseHeadersCaseSensitive(items) ==
  DictOf(SelectSeq(items, LAMBDA kv : kv[1] \notin StrippedResponseHeaders))

\* response_headers (lines 102-105)
FilterResponseHeaders(items) ==
  DictOf(SelectSeq(items, LAMBDA kv : Lower(kv[1]) \notin StrippedResponseHeaders))

\* response.headers.get('content-type', 'application/json') (line 111); httpx
\* looks a header up whatever the case of its name.
MediaType(items) ==
  IF \E i \in 1..Len(items) : Lower(items[i][1]) = "content-type"
    THEN items[CHOOSE i \in 1..Len(items) : Lower(items[i][1]) = "content-type"][2]
    ELSE "application/json"

\* The backend answers before the timeout: its response is returned (lines
\* 90-112).
UpstreamResponse(r, response) ==
  /\ req[r].pc = "await"
  /\ response.elapsed < ProxyTimeout
  /\ req' = [req EXCEPT ![r] =
       [@ EXCEPT !.pc = "done",
                 !.upstream_response = response,
                 !.waited = response.elapsed,
                 !.status_code = response.status_code,
                 !.content = response.content,
                 !.response_headers = FilterResponseHeaders(response.headers),
                 !.media_type = MediaType(response.headers),
                 !.origin = "upstream"]]
  /\ UNCHANGED <<route_cache, prefix_map, sorted_prefixes, probe, health>>

\* The awaited call raises exc.
RaisedInCall(r, exc) ==
  /\ req[r].pc = "await"
  /\ req' = [req EXCEPT ![r] = Raise(@, exc)]
  /\ UNCHANGED <<route_cache, prefix_map, sorted_prefixes, probe, health>>

\* The backend has not answered for ProxyTimeout seconds:
\* httpx.TimeoutException (lines 114-119)
UpstreamTimeout(r) ==
  \E exc \in UpstreamExceptions :
    /\ IsInstance(exc, "TimeoutException")
    /\ req[r].pc = "await"
    /\ req' = [req EXCEPT ![r] = [Raise(@, exc) EXCEPT !.waited = ProxyTimeout]]
    /\ UNCHANGED <<route_cache, prefix_map, sorted_prefixes, probe, health>>

\* any other httpx.RequestError (lines 120-126)
UpstreamRequestError(r) ==
  \E exc \in UpstreamExceptions :
    /\ IsInstance(exc, "RequestError") /\ ~IsInstance(exc, "TimeoutException")
    /\ RaisedInCall(r, exc)

\* any other exception (lines 127-136)
UpstreamUnexpectedError(r) ==
  \E exc \in UpstreamExceptions :
    ~IsInstance(exc, "RequestError") /\ RaisedInCall(r, exc)

Next ==
  \E r \in Requests :
    \/ \E e \in Envelopes : Receive(r, e)
    \/ Authenticate(r)
    \/ Resolve(r)
    \/ Send(r)
    \/ \E response \in UpstreamResponses : UpstreamResponse(r, response)
    \/ UpstreamTimeout(r)
    \/ UpstreamRequestError(r)
    \/ UpstreamUnexpectedError(r)

Spec == Init /\ [][Next]_vars

----------------------------------------------------------------------------
(* One call of is_public_route and one of extract_token on arguments drawn *)
(* from the sets below.                                                    *)

\* the methods of the catch-all route (app/factory.py, line 46)
ProbeMethods == {"GET", "POST", "PUT", "PATCH", "DELETE", "OPTIONS"}

ProbePaths ==
  {"", "/", "/health/", "/health", "/docs", "/docsify", "/doc", "/redoc",
   "/api/auth/login/", "/api/auth/login", "/api/auth/me/",
   "/api/tenants/", "/api/tenants", "/api/tenants/7/validate/", "/API/TENANTS/",
   "/tenants/9/", "/vat-rates/", "/vat-rates/default/", "/vat-rates",
   "/api/quotes/vat-rates/", "/api/quotes/vat-rates/x", "/api/quotes/",
   "/api/library/health/", "/api/library/", "/api/categories/", "/categories/",
   "/api/devis/123/"}

ProbeAuthorizations ==
  {None} \cup
  {Some(v) : v \in {"", " ", "Bearer jwt.full", "bearer jwt.full", "BEARER jwt.full",
                    "BeArEr x", "Basic xxx", "Bearer", "Bearer a b",
                    "  Bearer \t tok  ", "Bearer  tok", "bearer\ttok", "Bearertok",
                    "Token tok", "Bearer: tok", "jwt.full Bearer"}}

InitProbe ==
  /\ route_cache = CompileRouteCache
  /\ prefix_map = CompilePrefixMap
  /\ sorted_prefixes = CompileSortedPrefixes
  /\ req = [r \in Requests |-> NoRequest]
  /\ health = NoHealth
  /\ probe \in {[NoProbe EXCEPT !.stage = "input", !.method = m, !.path = p,
                                !.authorization = a] :
                  m \in ProbeMethods, p \in ProbePaths, a \in ProbeAuthorizations}

\* JWTMiddleware.is_public_route(path, method) is called.
Classify ==
  /\ probe.stage = "input"
  /\ probe' = [probe EXCEPT !.stage = "classified",
                            !.is_public = is_public_route(probe.path, probe.method)]
  /\ UNCHANGED <<route_cache, prefix_map, sorted_prefixes, req, health>>

\* JWTMiddleware.extract_token(authorization) is called.
Extract ==
  /\ probe.stage = "classified"
  /\ probe' = [probe EXCEPT !.stage = "extracted",
                            !.token = extract_token(probe.authorization)]
  /\ UNCHANGED <<route_cache, prefix_map, sorted_prefixes, req, health>>

NextProbe == Classify \/ Extract

SpecProbe == InitProbe /\ [][NextProbe]_vars

----------------------------------------------------------------------------
(* Properties.                                                             *)

\* The request has been through resolve_service, which found a route.
Routed(r) == req[r].pc \in {"send", "await", "done"} /\ req[r].layer # "none"

\* What resolve_service answers: the pair it returns, or that it raises.
Answer(res) ==
  IF res.found THEN <<"found", res.service_url, res.target_path>>
  ELSE <<"RouteNotFound", "", "">>

\* resolve_service on the router as it is now
ResolveNow(path) == resolve_service(route_cache, prefix_map, sorted_prefixes, path)

\* The paths of the requests.
EnvelopePaths == {e.path : e \in Envelopes}

\* resolve_service on the router as __init__ leaves it
FreshAnswer ==
  [p \in EnvelopePaths |->
     Answer(resolve_service(CompileRouteCache, CompilePrefixMap,
                            CompileSortedPrefixes, p))]

\* The registered prefixes path starts with.
MatchingPrefixes(path) == {p \in DOMAIN prefix_map : StartsWith(path, p)}

\* C1: in every reachable state, whatever has been memoized, resolve_service
\* on the legacy route of every legacy mapping entry whose service is
\* configured returns that service's URL and the entry's target path, and
\* every request whose path is such a legacy route was given them.
C1_LegacyResolvesExactly ==
  /\ \A i \in 1..Len(LegacyItems) :
       LET legacy == LegacyItems[i][1]
           service == LegacyItems[i][2][1]
           target == LegacyItems[i][2][2]
       IN  service \in DOMAIN services =>
             Answer(ResolveNow(legacy)) = <<"found", services[service].url, target>>
  /\ \A r \in Requests : \A i \in 1..Len(LegacyItems) :
       /\ req[r].resolver_calls > 0
       /\ req[r].path = LegacyItems[i][1]
       /\ LegacyItems[i][2][1] \in DOMAIN services
       => /\ Routed(r)
          /\ req[r].service_url = services[LegacyItems[i][2][1]].url
          /\ req[r].target_path = LegacyItems[i][2][2]

\* C1 witness: after a prefix hit has been memoized, a request for a legacy
\* route that a registered prefix is a string-prefix of has been resolved, by
\* the exact layer.
C1_Witness ==
  /\ DOMAIN route_cache # DOMAIN CompileRouteCache
  /\ \E r \in Requests :
       /\ Routed(r)
       /\ req[r].layer = "exact"
       /\ \E i \in 1..Len(LegacyItems) : req[r].path = LegacyItems[i][1]
       /\ MatchingPrefixes(req[r].path) # {}

\* C2: a request answered by the prefix layer was given the mapping of the
\* longest registered prefix its path starts with (that prefix's service URL,
\* and that prefix's new prefix in place of it), never that of a shorter
\* registered prefix.
C2_LongestPrefixWins ==
  \A r \in Requests :
    req[r].layer = "prefix" =>
      LET path == req[r].path
          matching == MatchingPrefixes(path)
          longest == CHOOSE p \in matching : \A q \in matching : Len(q) <= Len(p)
          entry == prefix_map[longest]
      IN  /\ matching # {}
          /\ req[r].prefix = Some(longest)
          /\ req[r].service_url = entry[1]
          /\ req[r].target_path =
               IF entry[2] # entry[3]
                 THEN entry[3] \o SubSeq(path, Len(longest) + 1, Len(path))
                 ELSE path
          /\ \A p1 \in matching : p1 # longest =>
               /\ Len(p1) < Len(longest)
               /\ StartsWith(longest, p1)
               /\ req[r].prefix # Some(p1)

\* C2 witness: a request was answered by the prefix layer whose path starts
\* with two registered prefixes, one a proper prefix of the other, that map
\* it differently.
C2_Witness ==
  \E r \in Requests :
    /\ req[r].layer = "prefix"
    /\ \E p1, p2 \in MatchingPrefixes(req[r].path) :
         /\ Len(p1) < Len(p2)
         /\ StartsWith(p2, p1)
         /\ <<prefix_map[p1][1],
              TransformPath(req[r].path, prefix_map[p1][2], prefix_map[p1][3])>>
            # <<prefix_map[p2][1],
                TransformPath(req[r].path, prefix_map[p2][2], prefix_map[p2][3])>>

\* The routes of the services: <<service URL, owned prefix>>.
OwnedPrefixes ==
  UNION {{<<SERVICES[i].url, SERVICES[i].routes[j]>> :
            j \in 1..Len(SERVICES[i].routes)} : i \in 1..Len(SERVICES)}

\* C3 as stated: every routed request whose path starts with an owned prefix
\* of a service was given that service's URL and its own path, unchanged.
C3_OwnedPrefixIdentity ==
  \A r \in Requests : \A o \in OwnedPrefixes :
    Routed(r) /\ StartsWith(req[r].path, o[2]) =>
      /\ req[r].service_url = o[1]
      /\ req[r].target_path = req[r].path

\* C3 amended: every routed request whose path starts with an owned prefix p
\* of a service, is not itself a legacy route, and starts with no registered
\* prefix longer than p, was given that service's URL and its own path,
\* unchanged.
C3_OwnedPrefixIdentityUnlessLegacy ==
  \A r \in Requests : \A o \in OwnedPrefixes :
    /\ Routed(r)
    /\ StartsWith(req[r].path, o[2])
    /\ \A i \in 1..Len(LegacyItems) : LegacyItems[i][1] # req[r].path
    /\ \A q \in MatchingPrefixes(req[r].path) : Len(q) <= Len(o[2])
    => /\ req[r].service_url = o[1]
       /\ req[r].target_path = req[r].path

\* C3 witness: a request whose path is an owned prefix followed by a suffix,
\* is no legacy route and starts with a shorter legacy prefix that would
\* rewrite it, was answered by the prefix layer.
C3_Witness ==
  \E r \in Requests : \E o \in OwnedPrefixes :
    /\ req[r].layer = "prefix"
    /\ StartsWith(req[r].path, o[2])
    /\ req[r].path # o[2]
    /\ \A i \in 1..Len(LegacyItems) : LegacyItems[i][1] # req[r].path
    /\ \A q \in MatchingPrefixes(req[r].path) : Len(q) <= Len(o[2])
    /\ \E q \in MatchingPrefixes(req[r].path) : prefix_map[q][2] # prefix_map[q][3]

\* C4: memoization never changes an answer.  In every reachable state
\* resolve_service answers each path as it does on the freshly built router;
\* every request was answered so; a route once found for a path is in the
\* exact layer with that answer, so the next call for the path is answered
\* there; and no two requests for one path were both answered by the prefix
\* layer.
C4_CacheNeverChangesAnswer ==
  /\ \A p \in EnvelopePaths : Answer(ResolveNow(p)) = FreshAnswer[p]
  /\ \A r \in Requests :
       req[r].resolver_calls > 0 =>
         /\ FreshAnswer[req[r].path] =
              IF Routed(r)
                THEN <<"found", req[r].service_url, req[r].target_path>>
                ELSE <<"RouteNotFound", "", "">>
         /\ Routed(r) =>
              /\ req[r].path \in DOMAIN route_cache
              /\ route_cache[req[r].path] = <<req[r].service_url, req[r].target_path>>
              /\ ResolveNow(req[r].path).layer = "exact"
  /\ \A r1, r2 \in Requests :
       r1 # r2 /\ req[r1].path = req[r2].path /\ req[r1].layer = "prefix"
         => req[r2].layer # "prefix"

\* C4 witness: two requests for one path that was not in the exact layer at
\* first: one answered by the prefix layer with a rewritten path, the other
\* by the exact layer, with the same answer.
C4_Witness ==
  \E r1, r2 \in Requests :
    /\ req[r1].path = req[r2].path
    /\ req[r1].layer = "prefix"
    /\ req[r2].layer = "exact"
    /\ req[r1].target_path # req[r1].path
    /\ req[r1].service_url = req[r2].service_url
    /\ req[r1].target_path = req[r2].target_path

\* The name of the header, as Starlette gives it.
Authorization(r) == DictGet(req[r].headers, "authorization")

\* Why a request to a protected route is not authenticated, "" if it is:
\* no Authorization header; a header that is not "Bearer <token>"; a token
\* whose signature has expired; a token whose signature or format is invalid;
\* a valid token without a user id or without a tenant id.
AuthFailure(authorization) ==
  IF authorization = None THEN "missing token"
  ELSE LET parts == Split(authorization[1])
       IN  IF Len(parts) # 2 \/ Lower(parts[1]) # "bearer" THEN "malformed header"
           ELSE LET decoded == jwt_decode(parts[2])
                IN  IF decoded.raised = "ExpiredSignatureError" THEN "expired signature"
                    ELSE IF decoded.raised # "" THEN "invalid token"
                    ELSE IF \/ Falsy(decoded.payload.user_id)
                            \/ Falsy(decoded.payload.tenant_id)
                      THEN "missing claims"
                    ELSE ""

\* The request is past get_current_user.
Gated(r) == req[r].pc \notin {"idle", "auth"}

Protected(r) == ~is_public_route(req[r].path, req[r].method)

\* The request is to a protected route and fails authentication for cause c.
FailsFor(r, c) == Gated(r) /\ Protected(r) /\ AuthFailure(Authorization(r)) = c

AuthFailures ==
  {"missing token", "malformed header", "expired signature", "invalid token",
   "missing claims"}

\* C5: a request to a protected route whose Authorization header is missing,
\* is not a bearer header, or carries a token that fails validation is answered
\* 401 by get_current_user, and resolve_service and the upstream call are
\* never invoked for it.
C5_AuthFailureShortCircuits ==
  \A r \in Requests :
    (\E c \in AuthFailures : FailsFor(r, c)) =>
      /\ req[r].pc = "done"
      /\ req[r].status_code = 401
      /\ req[r].origin = "gateway"
      /\ req[r].resolver_calls = 0
      /\ req[r].upstream_calls = 0
      /\ req[r].layer = "none"

\* C5 witness: while another request has been forwarded, a request to a
\* protected route with "Authorization: Basic xxx" has been answered.
C5_Witness ==
  \E r1, r2 \in Requests :
    /\ req[r1].pc = "done"
    /\ Protected(r1)
    /\ Authorization(r1) = Some("Basic xxx")
    /\ req[r2].upstream_calls = 1

\* The path has no exact-match entry and starts with no registered prefix.
NoMatch(path) == path \notin DOMAIN route_cache /\ MatchingPrefixes(path) = {}

\* C6: a request that passed get_current_user and whose path has no exact
\* entry and no registered prefix is answered 404 by the gateway once
\* resolve_service has run, without an upstream call; a request whose path has
\* an exact entry or a registered prefix is never answered 404 by the gateway.
C6_NotFoundIffNoMatch ==
  \A r \in Requests :
    /\ Gated(r) /\ req[r].pc # "proxy" /\ NoMatch(req[r].path)
       /\ (~Protected(r) \/ AuthFailure(Authorization(r)) = "")
       => /\ req[r].pc = "done"
          /\ req[r].status_code = 404
          /\ req[r].origin = "gateway"
          /\ req[r].upstream_calls = 0
    /\ req[r].pc # "idle" /\ ~NoMatch(req[r].path)
       => ~(req[r].status_code = 404 /\ req[r].origin = "gateway")

\* C6 witness: one request was answered 404 by the gateway for a path without
\* a match, another, whose path has a match, was answered 404 by its backend.
C6_Witness ==
  \E r1, r2 \in Requests :
    /\ req[r1].pc = "done" /\ NoMatch(req[r1].path)
    /\ req[r1].status_code = 404 /\ req[r1].origin = "gateway"
    /\ req[r1].resolver_calls = 1
    /\ req[r2].pc = "done" /\ ~NoMatch(req[r2].path)
    /\ req[r2].status_code = 404 /\ req[r2].origin = "upstream"

\* C7: is_public_route(path, method) is true exactly when path starts with an
\* entry of PUBLIC_ROUTES, or method is GET and path starts with
\* "/api/tenants/", or path is "/api/quotes/vat-rates/" or "/vat-rates/".
C7_PublicIffRule ==
  probe.stage \in {"classified", "extracted"} =>
    (probe.is_public <=>
       \/ \E a \in Range(PUBLIC_ROUTES) :
            /\ Len(a) <= Len(probe.path)
            /\ \A i \in 1..Len(a) : CharAt(probe.path, i) = CharAt(a, i)
       \/ /\ probe.method = "GET"
          /\ Len(probe.path) >= 13
          /\ SubSeq(probe.path, 1, 13) = "/api/tenants/"
       \/ probe.path \in {"/api/quotes/vat-rates/", "/vat-rates/"})

\* C7 witness: a path that is no entry of the allow-list but starts with one
\* was classified public for a method other than GET.
C7_Witness ==
  /\ probe.stage = "classified"
  /\ probe.is_public
  /\ probe.method = "DELETE"
  /\ probe.path \notin Range(PUBLIC_ROUTES)

\* The string is made of one or more characters, none of them whitespace.
IsWord(s) == Len(s) > 0 /\ \A i \in 1..Len(s) : CharAt(s, i) \notin Whitespace

\* The string is made of whitespace only (it may be empty).
IsBlank(s) == \A i \in 1..Len(s) : CharAt(s, i) \in Whitespace

\* The ways to cut the header value v into optional whitespace, a first
\* word, whitespace, a second word and optional whitespace: <<first, second>>.
TwoWords(v) ==
  LET n == Len(v)
      Second(c) == {d \in c..n : IsWord(SubSeq(v, c, d)) /\ IsBlank(SubSeq(v, d + 1, n))}
      Gap(b) == {c \in (b + 2)..n : IsBlank(SubSeq(v, b + 1, c - 1))}
      First(a) == {b \in a..n : IsWord(SubSeq(v, a, b))}
      Lead == {a \in 1..n : IsBlank(SubSeq(v, 1, a - 1))}
  IN  UNION {UNION {UNION {{<<SubSeq(v, a, b), SubSeq(v, c, d)>> : d \in Second(c)} :
                             c \in Gap(b)} :
                      b \in First(a)} :
               a \in Lead}

\* C8: extract_token returns a token exactly when the Authorization header is
\* present and its value is two whitespace-separated words of which the first
\* is "bearer" in any case; the token is the second word.  Otherwise it
\* returns None.
C8_TokenIffBearerHeader ==
  probe.stage = "extracted" =>
    LET words == IF probe.authorization = None THEN {}
                 ELSE TwoWords(probe.authorization[1])
        bearer == {w \in words :
                     \E b \in {"b", "B"}, e \in {"e", "E"}, a \in {"a", "A"},
                        r \in {"r", "R"}, e2 \in {"e", "E"}, r2 \in {"r", "R"} :
                       w[1] = b \o e \o a \o r \o e2 \o r2}
    IN  /\ probe.token # None <=> bearer # {}
        /\ probe.token # None => \A w \in bearer : probe.token = Some(w[2])

\* C8 witness: a token was extracted from a header whose scheme is not
\* spelled "Bearer" and whose words are separated by more than one space.
C8_Witness ==
  /\ probe.stage = "extracted"
  /\ probe.authorization = Some("  Bearer \t tok  ")
  /\ probe.token = Some("tok")

\* C9 as stated: every request to a protected route that fails authentication
\* for one of the five causes is answered 401, and two requests that fail for
\* different causes are answered with different details.
C9_FiveDistinctCauses ==
  \A r1, r2 \in Requests : \A c1, c2 \in AuthFailures :
    FailsFor(r1, c1) /\ FailsFor(r2, c2) =>
      /\ req[r1].status_code = 401
      /\ c1 # c2 => req[r1].detail # req[r2].detail

\* C10: a request to a protected route whose token is validly signed and
\* unexpired but lacks the user id or the tenant id is answered 401, is given
\* no identity, and its detail differs from that of every request whose token
\* has expired or is invalid.
C10_MissingClaimsRejected ==
  \A r \in Requests :
    FailsFor(r, "missing claims") =>
      /\ req[r].pc = "done"
      /\ req[r].status_code = 401
      /\ req[r].current_user = None
      /\ req[r].validate_calls = 1
      /\ \A r2 \in Requests :
           FailsFor(r2, "expired signature") \/ FailsFor(r2, "invalid token")
             => req[r].detail # req[r2].detail
      /\ req[r].detail \notin {validate_token("jwt.expired").detail,
                               validate_token("jwt.forged").detail}

\* C10 witness: a request with a valid token that has no tenant id and a
\* request with an expired token have both been answered.
C10_Witness ==
  \E r1, r2 \in Requests :
    /\ FailsFor(r1, "missing claims") /\ req[r1].pc = "done"
    /\ FailsFor(r2, "expired signature") /\ req[r2].pc = "done"

\* C11: every 401 the gateway answers to a request that fails authentication
\* (missing token, malformed header, expired token, invalid token, missing
\* mandatory claims) carries the header "WWW-Authenticate: Bearer".
C11_ChallengeOnEvery401 ==
  \A r \in Requests : \A c \in AuthFailures :
    FailsFor(r, c) /\ req[r].pc = "done" /\ req[r].status_code = 401 =>
      /\ "WWW-Authenticate" \in DOMAIN req[r].response_headers
      /\ req[r].response_headers["WWW-Authenticate"] = "Bearer"


\* The request reached client.request (the forwarder).
Forwarded(r) == req[r].upstream_calls > 0

\* Nothing of a response has been produced for the request.
NoResponseEmitted(r) ==
  /\ req[r].status_code = 0
  /\ req[r].content = ""
  /\ req[r].response_headers = EmptyDict
  /\ req[r].media_type = ""

\* C12: for a request that reached client.request, a timeout of the call is
\* answered 504, any other error of the request (httpx.RequestError:
\* connection, network, protocol) 503 and any other exception 500, each by
\* the gateway; a timeout is never answered 503 or 500; and in
\* each of these cases nothing of an upstream response is emitted, as nothing
\* is emitted before the request is done.
C12_FailureMapping ==
  \A r \in Requests :
    /\ req[r].pc # "done" => NoResponseEmitted(r)
    /\ Forwarded(r) /\ req[r].exception # "" =>
         /\ req[r].pc = "done"
         /\ req[r].origin = "gateway"
         /\ req[r].status_code =
              IF IsInstance(req[r].exception, "TimeoutException") THEN 504
              ELSE IF IsInstance(req[r].exception, "RequestError") THEN 503
              ELSE 500
         /\ req[r].content = ""
         /\ req[r].response_headers = EmptyDict
         /\ req[r].upstream_response = NoResponse

\* C12 witness: one request has been answered after a timeout of its call and
\* another after a connection error.
C12_Witness ==
  \E r1, r2 \in Requests :
    /\ req[r1].pc = "done" /\ req[r1].exception = "ReadTimeout"
    /\ req[r1].status_code = 504
    /\ req[r2].pc = "done" /\ req[r2].exception = "ConnectError"
    /\ req[r2].status_code = 503


\* The request is to a public route or carries a token that validates.
PassedAuthentication(r) == ~Protected(r) \/ AuthFailure(Authorization(r)) = ""

TransportRequestHeaders == {"host", "content-length", "content-encoding", "transfer-encoding"}

\* C14: the headers given to client.request contain none of the inbound
\* headers host, content-length, content-encoding, transfer-encoding, whatever
\* headers the client sent.
C14_TransportHeadersStripped ==
  \A r \in Requests :
    Forwarded(r) =>
      \A k \in DOMAIN req[r].upstream_headers :
        Lower(k) \notin TransportRequestHeaders


\* C15: a forwarded request with a validated identity has the upstream headers
\* X-User-ID, X-Tenant-ID and X-User-Email equal to the identity's user id,
\* tenant id and email, X-User-Email being the empty string when the token had
\* no email claim; and the absence of an email claim does not change the
\* outcome of the forward: the call is not refused for it.
C15_IdentityHeaders ==
  \A r \in Requests :
    Forwarded(r) /\ req[r].current_user # None =>
      LET user == req[r].current_user[1]
          sent == req[r].upstream_headers
      IN  /\ {"X-User-ID", "X-Tenant-ID", "X-User-Email"} \subseteq DOMAIN sent
          /\ sent["X-User-ID"] = Some(user.user_id)
          /\ sent["X-Tenant-ID"] = Some(user.tenant_id)
          /\ sent["X-User-Email"] =
               IF user.email = None THEN Some("") ELSE user.email
          /\ req[r].exception # "TypeError"

\* C16: the call of client.request has the method of the inbound request, the
\* URL service_url + target_path, the raw body of the inbound request, and its
\* query parameters, every value of a repeated key included.
C16_SameRequestUpstream ==
  \A r \in Requests :
    Forwarded(r) =>
      /\ req[r].upstream_request.method = req[r].method
      /\ req[r].upstream_request.url = req[r].service_url \o req[r].target_path
      /\ req[r].upstream_request.content = req[r].body
      /\ req[r].upstream_request.params = req[r].query_params


\* C17: when the call returns a response, of any status, the gateway's
\* response has its status code and its body, every header of it except
\* content-encoding, transfer-encoding and connection (whatever the case of
\* the name), and none of these three.
C17_ResponsePassedThrough ==
  \A r \in Requests :
    req[r].pc = "done" /\ req[r].origin = "upstream" =>
      LET response == req[r].upstream_response
      IN  /\ response \in UpstreamResponses
          /\ req[r].status_code = response.status_code
          /\ req[r].content = response.content
          /\ \A i \in 1..Len(response.headers) :
               Lower(response.headers[i][1]) \notin
                   {"content-encoding", "transfer-encoding", "connection"} =>
                 /\ response.headers[i][1] \in DOMAIN req[r].response_headers
                 /\ req[r].response_headers[response.headers[i][1]] =
                      response.headers[i][2]
          /\ \A k \in DOMAIN req[r].response_headers :
               Lower(k) \notin {"content-encoding", "transfer-encoding", "connection"}

\* C17 witness: a 503 of the backend with the headers Transfer-Encoding,
\* Connection and X-Trace has been returned.
C17_Witness ==
  \E r \in Requests :
    /\ req[r].pc = "done" /\ req[r].origin = "upstream"
    /\ req[r].status_code = 503
    /\ \E i \in 1..Len(req[r].upstream_response.headers) :
         req[r].upstream_response.headers[i][1] = "Transfer-Encoding"
    /\ "X-Trace" \in DOMAIN req[r].response_headers


----------------------------------------------------------------------------
(* GET /health/: health_check (app/endpoints.py) over                      *)
(* ServiceRouter.health_check_all, which probes every service with one     *)
(* task each and aggregates the results when asyncio.gather returns.       *)

ServiceIndexes == 1..Len(SERVICES)

\* What client.get(health_url) ends with: a response, of which the status
\* code matters, or an exception.
HealthOutcomes ==
  { [status_code |-> 200, exception |-> ""],
    [status_code |-> 503, exception |-> ""],
    [status_code |-> 0, exception |-> "ReadTimeout"],
    [status_code |-> 0, exception |-> "ConnectError"] }

\* health_url (line 142)
HealthUrl(s) == SERVICES[s].url \o SERVICES[s].health

\* Every response counts as healthy.
check_service_health_any_response(health_url, outcome) ==
  IF outcome.exception # ""
    THEN [status |-> "unreachable", url |-> Some(health_url),
          error |-> StrOf(outcome.exception)]
    ELSE [status |-> "healthy", url |-> Some(health_url), error |-> ""]

\* _check_service_health: the dict it returns for what client.get ended with
\* (response_time, a measured duration, is left out).
check_service_health(health_url, outcome) ==
  IF outcome.exception # ""
    THEN [status |-> "unreachable", url |-> Some(health_url),
          error |-> StrOf(outcome.exception)]
  ELSE IF outcome.status_code = 200
    THEN [status |-> "healthy", url |-> Some(health_url), error |-> ""]
  ELSE [status |-> "unhealthy", url |-> Some(health_url),
        error |-> "HTTP " \o ToString(outcome.status_code)]

\* gather returns only when every task has returned a healthy result.
GatherDoneHealthy(tasks) ==
  \A s \in DOMAIN tasks :
    tasks[s].state = "settled" /\ tasks[s].result.status = "healthy"

\* gather returns when one task is done.
GatherDoneAny(tasks) == \E s \in DOMAIN tasks : tasks[s].state = "settled"

\* await asyncio.gather(*tasks, return_exceptions=True) (line 145) returns
\* when every task is done.
GatherDone(tasks) == \A s \in DOMAIN tasks : tasks[s].state = "settled"

\* Only a result that is an exception makes the gateway degraded.
health_check_all_report_exceptions_only(results) ==
  [services |-> [name \in {SERVICES[s].name : s \in DOMAIN results} |->
                   results[CHOOSE s \in DOMAIN results : SERVICES[s].name = name]],
   gateway_status |-> "healthy",
   overall_status |-> "healthy"]

\* The loop over zip(self.services.keys(), results) and the overall status
\* (lines 147-160).  No result is an exception, as _check_service_health
\* catches every Exception itself.
health_check_all_report(results) ==
  [services |-> [name \in {SERVICES[s].name : s \in DOMAIN results} |->
                   results[CHOOSE s \in DOMAIN results : SERVICES[s].name = name]],
   gateway_status |-> "healthy",
   overall_status |->
     IF \A s \in DOMAIN results : results[s].status = "healthy"
       THEN "healthy" ELSE "degraded"]

\* GET /health/ arrives: health_check_all runs to its await of gather, which
\* makes a task of each coroutine.
HealthRequest ==
  /\ health.pc = "idle"
  /\ health' = [health EXCEPT !.pc = "gather",
                  !.tasks = [s \in ServiceIndexes |->
                               [NoTasks[s] EXCEPT !.state = "scheduled"]]]
  /\ UNCHANGED <<route_cache, prefix_map, sorted_prefixes, req, probe>>

\* The task of service s runs to its await of client.get: the probe is issued.
ProbeIssue(s) ==
  /\ health.pc = "gather"
  /\ health.tasks[s].state = "scheduled"
  /\ health' = [health EXCEPT !.tasks[s].state = "pending"]
  /\ UNCHANGED <<route_cache, prefix_map, sorted_prefixes, req, probe>>

\* client.get of service s ends, and the task returns its dict.
ProbeSettle(s, outcome) ==
  /\ health.pc = "gather"
  /\ health.tasks[s].state = "pending"
  /\ health' = [health EXCEPT !.tasks[s] =
                  [state |-> "settled", outcome |-> outcome,
                   result |-> check_service_health(HealthUrl(s), outcome)]]
  /\ UNCHANGED <<route_cache, prefix_map, sorted_prefixes, req, probe>>

\* gather returns; the results are aggregated, health_check_all returns and
\* health_check answers (endpoints.py, lines 45-48).
Aggregate ==
  /\ health.pc = "gather"
  /\ GatherDone(health.tasks)
  /\ LET results == [s \in ServiceIndexes |-> health.tasks[s].result]
         report == health_check_all_report(results)
     IN  health' = [health EXCEPT
                      !.pc = "done",
                      !.services = report.services,
                      !.gateway_status = report.gateway_status,
                      !.overall_status = report.overall_status,
                      !.status_code =
                        IF report.overall_status = "healthy" THEN 200 ELSE 503]
  /\ UNCHANGED <<route_cache, prefix_map, sorted_prefixes, req, probe>>

NextHealth ==
  \/ HealthRequest
  \/ \E s \in ServiceIndexes : ProbeIssue(s)
  \/ \E s \in ServiceIndexes : \E outcome \in HealthOutcomes : ProbeSettle(s, outcome)
  \/ Aggregate

SpecHealth == Init /\ [][NextHealth]_vars


\* What the probe of service s reported, from what its client.get ended with.
Reported(s) ==
  LET outcome == health.tasks[s].outcome
  IN  IF outcome.exception # "" THEN "unreachable"
      ELSE IF outcome.status_code = 200 THEN "healthy"
      ELSE "unhealthy"

\* C18: for every combination of probe outcomes, GET /health/ answers
\* overall_status "healthy" with 200 if and only if the probe of every
\* configured service reported "healthy", and otherwise "degraded" with 503;
\* the gateway's own status is "healthy" in both cases.
C18_OverallHealthyIffAll ==
  health.pc = "done" =>
    /\ health.gateway_status = "healthy"
    /\ IF \A s \in ServiceIndexes : Reported(s) = "healthy"
         THEN health.overall_status = "healthy" /\ health.status_code = 200
         ELSE health.overall_status = "degraded" /\ health.status_code = 503

\* C18 witness: every probe but one reported healthy, and the answer is 503.
C18_Witness ==
  /\ health.pc = "done"
  /\ Cardinality({s \in ServiceIndexes : Reported(s) = "healthy"}) = Len(SERVICES) - 1
  /\ \E s \in ServiceIndexes : Reported(s) = "unhealthy"
  /\ health.status_code = 503

\* C19: whatever the order in which the probes end, the report has exactly
\* one entry per configured service and each entry is that of the service's
\* own probe (200: healthy, another status: unhealthy, timeout or transport
\* error: unreachable); while the probes run, a probe that failed or timed out
\* keeps no other probe from being issued or from ending with any outcome, and
\* the aggregation takes place once all have ended.
C19_IndependentProbes ==
  /\ health.pc = "done" =>
       /\ DOMAIN health.services = {SERVICES[s].name : s \in ServiceIndexes}
       /\ Cardinality(DOMAIN health.services) = Len(SERVICES)
       /\ \A s \in ServiceIndexes :
            /\ health.services[SERVICES[s].name].status = Reported(s)
            /\ health.services[SERVICES[s].name].url = Some(HealthUrl(s))
  /\ health.pc = "gather" =>
       /\ \A s \in ServiceIndexes :
            /\ health.tasks[s].state = "scheduled" => ENABLED ProbeIssue(s)
            /\ health.tasks[s].state = "pending" =>
                 \A outcome \in HealthOutcomes : ENABLED ProbeSettle(s, outcome)
            /\ health.tasks[s].state = "settled" =>
                 health.tasks[s].result.status = Reported(s)
       /\ (\A s \in ServiceIndexes : health.tasks[s].state = "settled")
            => ENABLED Aggregate

\* C19 witness: one probe timed out, another was answered 503, a third was
\* answered 200, and the report has been made.
C19_Witness ==
  /\ health.pc = "done"
  /\ \E s1, s2, s3 \in ServiceIndexes :
       /\ health.tasks[s1].outcome.exception = "ReadTimeout"
       /\ health.services[SERVICES[s1].name].status = "unreachable"
       /\ health.tasks[s2].outcome.status_code = 503
       /\ health.services[SERVICES[s2].name].status = "unhealthy"
       /\ health.tasks[s3].outcome.status_code = 200
       /\ health.services[SERVICES[s3].name].status = "healthy"

\* C20: every probe is launched before any probe's result exists, and the
\* overall status is computed and the report returned only when every probe
\* has ended; there is no report while a probe is pending.
C20_JoinBarrier ==
  /\ (\E s \in ServiceIndexes : health.tasks[s].state \in {"pending", "settled"})
       => \A s \in ServiceIndexes : health.tasks[s].state # "none"
  /\ health.pc = "done" =>
       \A s \in ServiceIndexes : health.tasks[s].state = "settled"
  /\ health.pc # "done" =>
       /\ health.services = EmptyDict
       /\ health.overall_status = ""
       /\ health.status_code = 0

\* C20 witness: the report has been returned, one probe having timed out.
C20_Witness ==
  /\ health.pc = "done"
  /\ health.status_code = 503
  /\ \E s \in ServiceIndexes : health.tasks[s].outcome.exception = "ReadTimeout"
  /\ \A s \in ServiceIndexes : health.tasks[s].state = "settled"


\* The entries of the exact-match layer that resolve_service memoized.
Memoized == DOMAIN route_cache \ DOMAIN CompileRouteCache

\* C21: the exact-match layer is bounded by a fixed capacity: resolving ever
\* more distinct client paths that match a registered prefix does not add an
\* entry for every one of them, so the memoized entries stay fewer than the
\* requests with a path of their own.
C21_CacheBounded == Cardinality(Memoized) < NumRequests


\* C22: with a backend that takes 20 seconds to answer, the call is given up
\* at the forwarding timeout of 15 seconds and answered 504: no request waits
\* for its backend longer than 15 seconds, and no response that a backend
\* gave after 15 seconds or more is returned.
C22_GivesUpAtFifteenSeconds ==
  \A r \in Requests :
    Forwarded(r) /\ req[r].pc = "done" =>
      /\ req[r].waited <= 15
      /\ req[r].origin = "upstream" => req[r].upstream_response.elapsed < 15
      /\ req[r].waited >= 15 => req[r].status_code = 504


\* The URL of the service named name.
ServiceUrl(name) == services[name].url

\* C23: a GET without an Authorization header to /api/categories/,
\* /categories/ or /api/library/ is routed to the library service, and when
\* the library service answers 200 the gateway answers 200; the gateway does
\* not reject it with 401, 404 or 503.
C23_LibraryRoutesReachable ==
  \A r \in Requests :
    /\ req[r].pc = "done"
    /\ req[r].method = "GET"
    /\ req[r].path \in {"/api/categories/", "/categories/", "/api/library/"}
    /\ Authorization(r) = None
    => /\ req[r].service_url = ServiceUrl("library")
       /\ req[r].upstream_calls = 1
       /\ ~(req[r].origin = "gateway" /\ req[r].status_code \in {401, 404, 503}
            /\ req[r].exception = "")
       /\ req[r].upstream_response.status_code = 200 => req[r].status_code = 200


\* The exact-match layer before and after a step: no entry is removed or
\* overwritten.
ExactEntriesKept ==
  \A k \in DOMAIN route_cache :
    k \in DOMAIN route_cache' /\ route_cache'[k] = route_cache[k]

\* C24: resolve_service never changes the prefix map or the sorted prefix
\* list (the service set is the configuration), and never overwrites or
\* removes an entry of the exact-match layer; a call that hits a prefix adds
\* at most the one entry keyed by the path it resolved, with the answer it
\* returned, and a call that fails, like one answered by the exact-match
\* layer, leaves the three tables unchanged.
C24_ResolveFrame ==
  [][ /\ prefix_map' = prefix_map
      /\ sorted_prefixes' = sorted_prefixes
      /\ ExactEntriesKept
      /\ \A r \in Requests :
           req[r].pc = "proxy" /\ req'[r].pc # "proxy" =>
             /\ DOMAIN route_cache' \ DOMAIN route_cache \subseteq {req[r].path}
             /\ req'[r].layer = "prefix" =>
                  /\ req[r].path \in DOMAIN route_cache'
                  /\ route_cache'[req[r].path] =
                       <<req'[r].service_url, req'[r].target_path>>
             /\ req'[r].layer # "prefix" => route_cache' = route_cache
             /\ req'[r].status_code = 404 => route_cache' = route_cache
      /\ (\A r \in Requests : ~(req[r].pc = "proxy" /\ req'[r].pc # "proxy"))
           => route_cache' = route_cache ]_vars

\* C24 witness: one call has memoized its path and another has failed.
C24_Witness ==
  \E r1, r2 \in Requests :
    /\ req[r1].layer = "prefix" /\ req[r1].path \in Memoized
    /\ req[r2].pc = "done" /\ req[r2].status_code = 404
    /\ req[r2].origin = "gateway" /\ req[r2].path \notin DOMAIN route_cache


----------------------------------------------------------------------------
(* The two resolvers on paths drawn from the set below:                    *)
(* ServiceRouter.resolve_service of app/router.py, on the router of the    *)
(* process, and ServiceRouter.resolve_service of main.py, which loops over *)
(* the configuration at every call.                                        *)

\* the number of calls of resolve_service in a run
MaxCalls == 2

ResolvePaths ==
  {"/", "/api/unknown/", "/api",
   "/api/devis/", "/api/devis", "/api/devis/123/", "/api/devis/123/pdf/",
   "/api/devis/{id}/pdf/", "/api/devis/{id}/pdf/x", "/api/devisx",
   "/api/tiers/", "/api/tiers/stats/", "/api/tiers/42/restaurer/",
   "/api/tiers/{id}/restaurer/", "/api/tiers/{id}/restaurer/now",
   "/tiers/", "/tiers/42/", "/tiers/42/restaurer/", "/tiers/{id}/restaurer/",
   "/tiers/{id}/restaurer/now", "/tiers/a/tiers/b", "/tiers",
   "/opportunities/7/mark_won/", "/opportunities/{id}/mark_won/",
   "/api/auth/tenants/5/", "/api/auth/tenants/{tenant_id}/validate/",
   "/api/auth/login/", "/api/tenants/7/", "/tenants/9/",
   "/api/factures/3/pdf/", "/api/factures/{id}/pdf/", "/factures/1/factures/2",
   "/api/categories/", "/categories/", "/api/library/health/",
   "/api/tenants/vat_rates/x", "/api/clients/api/clients/"}

\* main.py, ServiceRouter.resolve_service(path), the (route, url) pairs of the
\* services being service_routes: what it returns, and the step that returned
\* it (1: exact legacy mapping, 2: legacy prefix, in the order of
\* the mapping, 3: service route, in the order of the services), or 404.
main_resolve_service_steps(path, service_routes) ==
  LET exact == {n \in 1..Len(LegacyItems) :
                  LegacyItems[n][1] = path /\ LegacyItems[n][2][1] \in DOMAIN services}
      legacy == {n \in 1..Len(LegacyItems) :
                   /\ StartsWith(path, RStripSlash(LegacyItems[n][1]))
                   /\ LegacyItems[n][2][1] \in DOMAIN services}
      routes == {n \in 1..Len(service_routes) :
                   StartsWith(path, service_routes[n][1])}
  IN  IF exact # {}
        THEN LET item == LegacyItems[CHOOSE n \in exact : TRUE]
             IN  [found |-> TRUE, service_url |-> services[item[2][1]].url,
                  target_path |-> item[2][2], step |-> 1]
      ELSE IF legacy # {}
        THEN LET item == LegacyItems[CHOOSE n \in legacy : \A m \in legacy : n <= m]
             IN  [found |-> TRUE, service_url |-> services[item[2][1]].url,
                  target_path |-> ReplaceAll(path, RStripSlash(item[1]),
                                             RStripSlash(item[2][2])),
                  step |-> 2]
      ELSE IF routes # {}
        THEN LET entry == service_routes[CHOOSE n \in routes :
                                            \A m \in routes : n <= m]
             IN  [found |-> TRUE, service_url |-> entry[2][1],
                  target_path |-> path, step |-> 3]
      ELSE [found |-> FALSE, service_url |-> "", target_path |-> "", step |-> 0]

\* The loop over the routes of the services is left out.
main_resolve_service_legacy_only(path) ==
  main_resolve_service_steps(path, <<>>)

\* main.py, ServiceRouter.resolve_service(path), over the routes of SERVICES
main_resolve_service(path) ==
  main_resolve_service_steps(path, ServicePrefixAssignments)

\* Both resolvers are called with path.
ResolveCall(path) ==
  /\ probe.calls < MaxCalls
  /\ LET res == resolve_service(route_cache, prefix_map, sorted_prefixes, path)
     IN  /\ route_cache' = res.route_cache
         /\ probe' = [probe EXCEPT
                        !.stage = "resolved", !.path = path, !.calls = @ + 1,
                        !.resolved = [found |-> res.found,
                                      service_url |-> res.service_url,
                                      target_path |-> res.target_path,
                                      layer |-> res.layer, prefix |-> res.prefix],
                        !.main = main_resolve_service(path)]
  /\ UNCHANGED <<prefix_map, sorted_prefixes, req, health>>

NextResolve == \E path \in ResolvePaths : ResolveCall(path)

SpecResolve == Init /\ [][NextResolve]_vars

\* s holds a brace-delimited placeholder.
HasBrace(s) == Find(s, "{") # 0

\* The prefixes registered without a placeholder that path starts with.
PlainPrefixes(path) ==
  {k \in DOMAIN prefix_map : ~HasBrace(k) /\ StartsWith(path, k)}

\* C25: an entry whose text holds a brace-delimited placeholder is selected
\* only for a path that holds that text verbatim; a path without placeholder
\* text that is not itself an exact entry gets the answer of the longest
\* matching prefix registered without a placeholder (404 if there is none), so
\* no placeholder entry's rewrite is applied to it.
C25_PlaceholdersAreLiteral ==
  probe.stage = "resolved" =>
    LET path == probe.path
        res == probe.resolved
        plain == PlainPrefixes(path)
    IN  /\ (res.layer = "prefix" /\ HasBrace(res.prefix[1]))
             => Find(path, res.prefix[1]) = 1
        /\ (~HasBrace(path) /\ path \notin DOMAIN CompileRouteCache) =>
             IF plain = {} THEN ~res.found
             ELSE LET k == CHOOSE k \in plain : \A m \in plain : Len(m) <= Len(k)
                  IN  /\ res.found
                      /\ res.service_url = prefix_map[k][1]
                      /\ res.target_path =
                           IF prefix_map[k][2] # prefix_map[k][3]
                             THEN prefix_map[k][3] \o SubSeq(path, Len(k) + 1, Len(path))
                             ELSE path
                      /\ res.layer = "prefix" => res.prefix = Some(k)

\* A path with a concrete value where "/api/tiers/{id}/restaurer/" has its
\* placeholder was resolved by the prefix "/api/tiers" and left as it was.
C25_Witness ==
  /\ probe.stage = "resolved"
  /\ probe.path = "/api/tiers/42/restaurer/"
  /\ "/api/tiers/{id}/restaurer" \in DOMAIN prefix_map
  /\ probe.resolved.layer = "prefix"
  /\ probe.resolved.prefix = Some("/api/tiers")
  /\ probe.resolved.target_path = "/api/tiers/42/restaurer/"

\* C26: on a prefix hit whose old and new prefixes differ, the target path is
\* the new prefix followed by what came after the matched prefix in the path,
\* later occurrences of the old prefix left as they are; when the two prefixes
\* are equal the target path is the inbound path.
C26_PrefixReplacedOnceAtStart ==
  (probe.stage = "resolved" /\ probe.resolved.layer = "prefix") =>
    LET path == probe.path
        entry == prefix_map[probe.resolved.prefix[1]]
        old_prefix == entry[2]
        new_prefix == entry[3]
    IN  /\ StartsWith(path, old_prefix)
        /\ probe.resolved.target_path =
             IF old_prefix # new_prefix
               THEN new_prefix \o SubSeq(path, Len(old_prefix) + 1, Len(path))
               ELSE path

\* The old prefix "/tiers" occurs twice in the path and was rewritten at the
\* start only.
C26_Witness ==
  /\ probe.stage = "resolved"
  /\ probe.path = "/tiers/a/tiers/b"
  /\ probe.resolved.layer = "prefix"
  /\ probe.resolved.prefix = Some("/tiers")
  /\ prefix_map["/tiers"][3] = "/api/crm/tiers"
  /\ probe.resolved.target_path = "/api/crm/tiers/a/tiers/b"

\* The names, in lower case, of the headers that carry the caller's identity.
IdentityHeaderNames == {"x-user-id", "x-tenant-id", "x-user-email"}

\* The identity headers an upstream reads in the call made for request r, header
\* names being case-insensitive on the wire.
IdentitySeen(r) ==
  {<<Lower(k), req[r].upstream_headers[k]>> :
     k \in {h \in DOMAIN req[r].upstream_headers : Lower(h) \in IdentityHeaderNames}}

\* What request r has apart from its identity headers.
ApartFromIdentity(r) ==
  [method |-> req[r].method, path |-> req[r].path,
   query_params |-> req[r].query_params, body |-> req[r].body,
   headers |-> [k \in {h \in DOMAIN req[r].headers : h \notin IdentityHeaderNames}
                  |-> req[r].headers[k]]]

\* C27: two forwarded requests that differ only in the identity headers their
\* clients sent reach the upstream with the same identity headers, and a
\* forwarded request on a public route reaches it with none.
C27_IdentityFromTokenOnly ==
  /\ \A r1, r2 \in Requests :
       (Forwarded(r1) /\ Forwarded(r2) /\ ApartFromIdentity(r1) = ApartFromIdentity(r2))
         => IdentitySeen(r1) = IdentitySeen(r2)
  /\ \A r \in Requests :
       (Forwarded(r) /\ req[r].current_user = None) => IdentitySeen(r) = {}

\* C28 as stated: for every path, router.py's resolver and main.py's either
\* both fail with 404 or return the same service URL and the same target path.
C28_ResolversAgree ==
  probe.stage = "resolved" =>
    /\ probe.resolved.found = probe.main.found
    /\ probe.resolved.found =>
         /\ probe.resolved.service_url = probe.main.service_url
         /\ probe.resolved.target_path = probe.main.target_path

\* C28, amended: the two resolvers fail with 404 for the same paths and return
\* the same service URL for every other path; they return the same target path
\* for every path that is a key of the legacy mapping with a configured service
\* and for every path main.py resolves through a service route.
C28_ResolversAgreeOnServiceAndExact ==
  probe.stage = "resolved" =>
    /\ probe.resolved.found = probe.main.found
    /\ probe.resolved.found =>
         /\ probe.resolved.service_url = probe.main.service_url
         /\ (probe.path \in DOMAIN CompileRouteCache \/ probe.main.step \in {1, 3})
              => probe.resolved.target_path = probe.main.target_path

\* Both resolvers sent "/api/devis/123/" to the same service, main.py through
\* the legacy prefix "/api/devis" and router.py through the longer service
\* route "/api/devis/", with different target paths.
C28_Witness ==
  /\ probe.stage = "resolved"
  /\ probe.path = "/api/devis/123/"
  /\ probe.resolved.found /\ probe.main.found
  /\ probe.resolved.service_url = probe.main.service_url
  /\ probe.main.step = 2
  /\ probe.main.target_path = "/api/quotes/123/"
  /\ probe.resolved.prefix = Some("/api/devis/")
  /\ probe.resolved.target_path = "/api/devis/123/"

\* path starts with an entry of the allow-list.
AllowListed(path) == \E i \in 1..Len(PUBLIC_ROUTES) : StartsWith(path, PUBLIC_ROUTES[i])

\* Whatever the path and the method, is_public_route answers what the
\* allow-list alone answers: the GET-only tenants rule and the two VAT rules
\* decide nothing.
TenantsAndVatRulesRedundant ==
  \A path \in ProbePaths, method \in ProbeMethods :
    is_public_route(path, method) <=> AllowListed(path)

\* The names under which proxy_request adds the caller's identity.
GatewayIdentityHeaders == {"X-User-ID", "X-Tenant-ID", "X-User-Email"}

----------------------------------------------------------------------------
(* The catch-all route and GET /health/ under a fair event loop.            *)

\* The requests of the fair specification.
LiveRequests == {1}

\* Requests without credentials: one refused by get_current_user, one on a
\* public path that has no route, and one forwarded on a public route.
LiveEnvelopes ==
  { [method |-> "POST", path |-> "/api/devis/123/", headers |-> EmptyDict,
     query_params |-> <<>>, body |-> "{\"total\": 10}"],
    [method |-> "GET", path |-> "/docsify", headers |-> EmptyDict,
     query_params |-> <<>>, body |-> ""],
    [method |-> "POST", path |-> "/api/tenants/7/", headers |-> EmptyDict,
     query_params |-> <<>>, body |-> "{\"name\": \"t7\"}"] }

\* What a probe ends with: a healthy response, or its timeout.
LiveHealthOutcomes ==
  {o \in HealthOutcomes : o.status_code = 200 \/ o.exception = "ReadTimeout"}

\* The call of client.request made for r ends: with a response, with its
\* timeout, or with another exception.
UpstreamOutcome(r) ==
  \/ \E response \in UpstreamResponses : UpstreamResponse(r, response)
  \/ UpstreamTimeout(r)
  \/ UpstreamRequestError(r)
  \/ UpstreamUnexpectedError(r)

\* The most requests, GET /health/ included, that are being handled at once.
MaxInFlight == 1

\* The requests that have arrived and are not answered yet.
InFlight ==
  Cardinality({r \in LiveRequests : req[r].pc \notin {"idle", "done"}})
    + (IF health.pc = "gather" THEN 1 ELSE 0)

NextLive ==
  \/ \E r \in LiveRequests :
       \/ \E e \in LiveEnvelopes : InFlight < MaxInFlight /\ Receive(r, e)
       \/ Authenticate(r)
       \/ Resolve(r)
       \/ Send(r)
       \/ \E response \in UpstreamResponses : UpstreamResponse(r, response)
       \/ UpstreamTimeout(r)
       \/ UpstreamRequestError(r)
       \/ UpstreamUnexpectedError(r)
  \/ InFlight < MaxInFlight /\ HealthRequest
  \/ \E s \in ServiceIndexes : ProbeIssue(s)
  \/ \E s \in ServiceIndexes : \E outcome \in LiveHealthOutcomes : ProbeSettle(s, outcome)
  \/ Aggregate

\* The event loop runs every coroutine that is ready (the dependency, the
\* handler, the tasks of gather, the return of gather); a call of
\* client.request ends, at the latest by its timeout of 30 s (proxy.py line 76),
\* and so does a probe, by its timeout of 5 s (router.py line 138).  No
\* request has to arrive.
LiveFairness ==
  /\ \A r \in LiveRequests :
       /\ WF_vars(Authenticate(r))
       /\ WF_vars(Resolve(r))
       /\ WF_vars(Send(r))
       /\ WF_vars(UpstreamOutcome(r))
  /\ WF_vars(\E s \in ServiceIndexes : ProbeIssue(s))
  /\ WF_vars(\E s \in ServiceIndexes : \E outcome \in LiveHealthOutcomes :
               ProbeSettle(s, outcome))
  /\ WF_vars(Aggregate)

SpecLive == Init /\ [][NextLive]_vars /\ LiveFairness

\* Request r has its response, and it is one the gateway makes (401, 404, 504,
\* 503, 500) or the one the upstream returned.
Answered(r) ==
  /\ req[r].pc = "done"
  /\ \/ req[r].origin = "gateway" /\ req[r].status_code \in {401, 404, 504, 503, 500}
     \/ /\ req[r].origin = "upstream"
        /\ req[r].upstream_response # NoResponse
        /\ req[r].status_code = req[r].upstream_response.status_code

\* C30: every request received on the catch-all route is eventually answered,
\* with 401, 404, the upstream's response, 504, 503 or 500, and once answered
\* it is not answered again; and every GET /health/ eventually returns its
\* report, which has a result for each service.
C30_EveryRequestAnswered ==
  /\ \A r \in LiveRequests : (req[r].pc # "idle") ~> Answered(r)
  /\ [][\A r \in LiveRequests : req[r].pc = "done" => req'[r] = req[r]]_vars
  /\ (health.pc # "idle") ~>
       (health.pc = "done" /\ health.status_code \in {200, 503}
          /\ \A s \in ServiceIndexes : health.tasks[s].state = "settled")

\* A request has been answered with what the upstream returned, and a health
\* report has been returned after a probe timed out.
C30_Witness ==
  /\ Answered(1) /\ req[1].origin = "upstream" /\ req[1].upstream_calls = 1
  /\ health.pc = "done" /\ health.status_code = 503
  /\ \E s \in ServiceIndexes : health.tasks[s].outcome.exception = "ReadTimeout"


====
